---------------------------- MODULE Spec2Model ----------------------------
(***************************************************************************)
(* myCSVVisor: the CSV loader thread (CsvLoader), the main window's table, *)
(* filter, colour and plot state (MainWindow) and the plot widget          *)
(* (SimplePlotWidget), as a state machine.                                 *)
(*                                                                         *)
(* Text is a sequence of one-character strings, so that trimming,          *)
(* splitting on ',' and number parsing are computed, not assumed.          *)
(***************************************************************************)
EXTENDS Integers, Sequences, FiniteSets, TLC

(***************************************************************************)
(* QString helpers                                                         *)
(***************************************************************************)

Digits == {"0", "1", "2", "3", "4", "5", "6", "7", "8", "9"}

DigitVal(c) ==
    CASE c = "0" -> 0 [] c = "1" -> 1 [] c = "2" -> 2 [] c = "3" -> 3
      [] c = "4" -> 4 [] c = "5" -> 5 [] c = "6" -> 6 [] c = "7" -> 7
      [] c = "8" -> 8 [] c = "9" -> 9

Min(a, b) == IF a < b THEN a ELSE b

\* The text without its first character, whatever pos is (a wrong mid, to
\* test the properties' sensitivity)
MidOne(s, pos) == SubSeq(s, 2, Len(s))

\* QString::mid(pos): the text from 0-based position pos on.
Mid(s, pos) == SubSeq(s, pos + 1, Len(s))

\* QString::startsWith
StartsWith(s, p) == Len(p) <= Len(s) /\ SubSeq(s, 1, Len(p)) = p

\* A text left as typed (a wrong trimmed, to test the properties' sensitivity)
Untrimmed(s) == s

\* QString::trimmed: leading and trailing whitespace removed.
Trimmed(s) ==
    LET idx == {i \in 1..Len(s) : s[i] # " "}
    IN  IF idx = {} THEN <<>>
        ELSE LET lo == CHOOSE i \in idx : \A j \in idx : i <= j
                 hi == CHOOSE i \in idx : \A j \in idx : j <= i
             IN  SubSeq(s, lo, hi)

\* QString::split(sep), empty parts kept: "" gives one empty part.
Split(s, sep) ==
    LET pos  == {i \in 1..Len(s) : s[i] = sep}
        n    == Cardinality(pos)
        \* the k-th separator position, with 0 and Len(s)+1 as the two ends
        at(k) == IF k = 0 THEN 0
                 ELSE IF k = n + 1 THEN Len(s) + 1
                 ELSE CHOOSE i \in pos : Cardinality({j \in pos : j < i}) = k - 1
    IN  [k \in 1..(n + 1) |-> SubSeq(s, at(k - 1) + 1, at(k) - 1)]

\* Qt::CaseInsensitive folding, on the letters the model uses.
ToLower(c) ==
    CASE c = "A" -> "a" [] c = "B" -> "b" [] c = "E" -> "e" [] c = "X" -> "x"
      [] OTHER -> c

Lower(s) == [i \in 1..Len(s) |-> ToLower(s[i])]

\* QString::contains(t): t occurs in s (the empty text occurs everywhere).
Contains(s, t) ==
    \E i \in 0..(Len(s) - Len(t)) : SubSeq(s, i + 1, i + Len(t)) = t

\* QString::contains(t, Qt::CaseInsensitive)
ContainsCI(s, t) == Contains(Lower(s), Lower(t))

\* The digits of a decimal numeral, most significant first.
RECURSIVE DecVal(_)
DecVal(s) == IF s = <<>> THEN 0
             ELSE 10 * DecVal(SubSeq(s, 1, Len(s) - 1)) + DigitVal(s[Len(s)])

IsNumeral(s) == Len(s) > 0 /\ \A i \in 1..Len(s) : s[i] \in Digits

\* QString::toDouble(&ok) / toInt(&ok) on the model's alphabet (no '.', no
\* exponent): surrounding whitespace is ignored, then an optional sign and
\* one or more digits.  ok is FALSE for anything else, the empty text included.
NumOk(s) ==
    LET t == Trimmed(s)
    IN  \/ IsNumeral(t)
        \/ Len(t) > 1 /\ t[1] \in {"-", "+"} /\ IsNumeral(Mid(t, 1))

NumVal(s) ==
    LET t == Trimmed(s)
    IN  IF IsNumeral(t) THEN DecVal(t)
        ELSE IF t[1] = "-" THEN 0 - DecVal(Mid(t, 1))
        ELSE DecVal(Mid(t, 1))

\* A double: a number counted in halves (so that adding 0.5 is exact), or
\* "huge", a finite double of 2^53 or more, which adding or subtracting 0.5
\* leaves as it is, or "nan".
Double(n) == [class |-> "num", halves |-> 2 * n]

Halves(h) == [class |-> "num", halves |-> h]

Huge == [class |-> "huge", halves |-> 0]

NaN == [class |-> "nan", halves |-> 0]

\* a < b on doubles: false when either is a NaN
Less(a, b) ==
    CASE a.class = "nan" \/ b.class = "nan" -> FALSE
      [] a.class = "num" /\ b.class = "num" -> a.halves < b.halves
      [] OTHER -> a.class = "num" /\ b.class = "huge"

\* a == b on doubles: false when either is a NaN
Equal(a, b) ==
    CASE a.class = "nan" \/ b.class = "nan" -> FALSE
      [] a.class = "num" /\ b.class = "num" -> a.halves = b.halves
      [] OTHER -> a.class = b.class

\* a + h/2 in double arithmetic, for a small h: the huge double absorbs it
PlusHalves(a, h) ==
    IF a.class = "num" THEN Halves(a.halves + h) ELSE a

\* hi - lo in double arithmetic, for lo not above hi (or a NaN)
Extent(lo, hi) ==
    CASE lo.class = "nan" \/ hi.class = "nan" -> NaN
      [] lo.class = "num" /\ hi.class = "num" -> Halves(hi.halves - lo.halves)
      [] lo.class = "huge" /\ hi.class = "huge" -> Halves(0)
      [] OTHER -> Huge


(***************************************************************************)
(* Files the user can pick in the open dialog                              *)
(***************************************************************************)

\* const int MAX_ROWS_TO_LOAD
MAX_ROWS_TO_LOAD == 50000

\* rowsLoaded % 1000 == 0: a progress signal every 1000 rows
PROGRESS_EVERY == 1000

\* The number of loads started in one run of the application.
MaxLoads == 2

\* The worker's row loop is explored one iteration at a time on the short
\* files; on the long file it is explored in bursts of this many iterations
\* (consecutive iterations during which no other thread acts).
LongFileBurst == 25000

Loaders == 1..MaxLoads

\* long.csv: a header and one data line more than the cap.  The first data
\* line, the last one under the cap and the one past the cap are "1", "2" and
\* "3"; the lines between are all "0".
LongLines ==
    [i \in 1..(MAX_ROWS_TO_LOAD + 2) |->
        IF i = 1 THEN <<"n">>
        ELSE IF i = 2 THEN <<"1">>
        ELSE IF i = MAX_ROWS_TO_LOAD + 1 THEN <<"2">>
        ELSE IF i = MAX_ROWS_TO_LOAD + 2 THEN <<"3">>
        ELSE <<"0">>]

\* Sum of (bytes of line + 1) over lines a..b, by halving.
RECURSIVE LineBytes(_, _, _)
LineBytes(lines, a, b) ==
    IF a > b THEN 0
    ELSE IF a = b THEN Len(lines[a]) + 1
    ELSE LET m == (a + b) \div 2
         IN  LineBytes(lines, a, m) + LineBytes(lines, m + 1, b)

\* A file: whether it exists, whether it can be opened, and its lines as
\* QTextStream::readLine returns them (every line ends with a newline).
File(exists, openable, lines) ==
    [exists |-> exists, openable |-> openable, lines |-> lines,
     size |-> LineBytes(lines, 1, Len(lines))]

\* A file whose size, when run() asks for it, is not the number of bytes read
\* from it later: a file of /proc (size 0), a file still being written.
SizedFile(lines, size) == [File(TRUE, TRUE, lines) EXCEPT !.size = size]

\* A header and PROGRESS_EVERY rows
ThousandLines ==
    [i \in 1..(PROGRESS_EVERY + 1) |-> IF i = 1 THEN <<"n">> ELSE <<"0">>]

\* Files of the application runs: a missing path, a header without rows, and
\* two tables with different columns.
AppFiles == {"missing.csv", "header.csv", "a.csv", "b.csv"}

\* Files of the loader runs: also an unreadable file, an empty file, a file
\* with padded and short lines, a file one line longer than the cap, a file
\* that reports the size 0 and a file that has doubled since it was opened.
LoadFiles == AppFiles \cup {"locked.csv", "empty.csv", "ragged.csv", "long.csv",
                           "proc.csv", "grown.csv"}

FileContents(path) ==
    CASE path = "missing.csv" -> File(FALSE, FALSE, <<>>)
      [] path = "locked.csv"  -> File(TRUE, FALSE, << <<"x">> >>)
      [] path = "empty.csv"   -> File(TRUE, TRUE, <<>>)
      [] path = "header.csv"  -> File(TRUE, TRUE, << <<"x", ",", "y">> >>)
      [] path = "a.csv"       ->
            File(TRUE, TRUE, << <<"x", ",", "e", "m", "i", "t", "t", "e", "r">>,
                                <<"1", ",", "3">>,
                                <<"2", ",", "q">> >>)
      [] path = "b.csv"       ->
            File(TRUE, TRUE, << <<"e", "m", "i", "t", "t", "e", "r", ",", "y">>,
                                <<"q", ",", "5">> >>)
      [] path = "c.csv"       ->
            File(TRUE, TRUE, << <<"x", ",", "e", "m", "i", "t", "t", "e", "r">>,
                                <<"1", ",", "7">> >>)
      [] path = "ragged.csv"  ->
            File(TRUE, TRUE, << <<" ", "x", " ", ",", "y">>,
                                <<"1", ",", " ", "2", " ">>,
                                <<>>,
                                <<"3">>,
                                <<"4", ",", "5", ",", "6">> >>)
      [] path = "long.csv"    -> File(TRUE, TRUE, LongLines)
      [] path = "proc.csv"    -> SizedFile(ThousandLines, 0)
      [] path = "grown.csv"   -> SizedFile(ThousandLines, PROGRESS_EVERY + 1)
      [] path = "and.csv"     ->
            File(TRUE, TRUE, << <<"n", ",", "k">>,
                                <<"1", ",", "a">>,
                                <<"6", ",", "a">>,
                                <<"6", ",", "b">> >>)
      [] path = "range.csv"   ->
            File(TRUE, TRUE, << <<"v", ",", "w">>,
                                <<"1", "0", ",", "a">>,
                                <<"1", "5", ",", "b">>,
                                <<"2", "0", ",", "a">>,
                                <<"2", "1", ",", "a">>,
                                <<"9", ",", "a">>,
                                <<"x", ",", "a">>,
                                <<"1", "0", ":", "2", "0", ",", "a">>,
                                <<"1", "5">> >>)
      [] path = "ids.csv"     ->
            File(TRUE, TRUE, << <<"x", ",", "E", "m", "i", "t", "t", "e", "r", "I", "D">>,
                                <<"1", ",", "3">>,
                                <<"6", ",", "7">>,
                                <<"6", ",", "3">>,
                                <<"7", ",", "-", "1">>,
                                <<"8", ",", "-", "2">>,
                                <<"9", ",", "a">> >>)

      [] path = "rule.csv"    ->
            File(TRUE, TRUE, << <<"v">>, <<"5">>, <<"6">>, <<"7">>,
                                <<"0", "6">>, <<"-", "1">>, <<"=", "6">>,
                                <<">", "=">>, <<"5", ":", "7">>,
                                <<"5", ":", "6", ":", "7">>, <<"a", "x">> >>)

      [] path = "quoted.csv"  ->
            File(TRUE, TRUE, << <<"h", ",", "k", "\"">>,
                                <<"a", "\"", "b", ",", "2">>,
                                <<"c", ",", "1">> >>)

\* The file system, read once: what each path of the open dialog leads to.
FileSystem == [path \in LoadFiles \cup {"and.csv", "range.csv", "ids.csv",
                                        "quoted.csv", "rule.csv", "c.csv"} |->
                  FileContents(path)]

\* Files of the filter runs: the table of the AND example, a column of numbers
\* and texts for the range filter, and a table with an emitter column.
FilterFiles == {"and.csv", "range.csv", "ids.csv"}

\* Files of the reload runs: two tables with the same columns, the second an
\* emitter column, and different emitter ids.
ReloadFiles == {"a.csv", "c.csv"}

\* Files of the export runs: a table without quotes, and a table with a
\* double quote in a header and in a cell.
ExportFiles == {"and.csv", "quoted.csv"}

Burst(path) ==
    IF path \in {"long.csv", "proc.csv", "grown.csv"} THEN LongFileBurst ELSE 1

(***************************************************************************)
(* CsvData and the loader's signals                                        *)
(***************************************************************************)

CsvData(headers, rows) == [headers |-> headers, rows |-> rows]

\* A default-constructed CsvData, and CsvData::clear()
EmptyCsvData == CsvData(<<>>, <<>>)

\* line.split(',') with every field trimmed
ParseLine(line) ==
    LET fields == Split(line, ",")
    IN  [i \in 1..Len(fields) |-> Trimmed(fields[i])]

ProgressUpdated(value, message, n) ==
    [sig |-> "progressUpdated", value |-> value, message |-> message,
     n |-> n, data |-> EmptyCsvData]

LoadingFinished(data) ==
    [sig |-> "loadingFinished", value |-> 0, message |-> "", n |-> 0,
     data |-> data]

ErrorOccurred(message) ==
    [sig |-> "errorOccurred", value |-> 0, message |-> message, n |-> 0,
     data |-> EmptyCsvData]

IsTerminal(s) == s.sig \in {"loadingFinished", "errorOccurred"}

(***************************************************************************)
(* MainWindow: the fields the handlers read and write, as one record       *)
(***************************************************************************)

\* QList<QColor> vibrantColors, as populateDefaultColors fills it
vibrantColors ==
    << "green.darker(120)", "blue", "cyan.darker(150)", "magenta",
       "yellow.darker(150)", "darkBlue", "darkGreen", "darkCyan",
       "darkMagenta", "darkYellow", "gray", "#FF5733", "#33FFBD", "#A233FF",
       "#FFC300" >>

\* A QComboBox: its items and its current index (0-based, -1 for none).
ComboBox(items, index) == [items |-> items, index |-> index]

\* QComboBox::currentText
CurrentText(combo) ==
    IF combo.index = -1 THEN <<>> ELSE combo.items[combo.index + 1]

\* SimplePlotWidget's plotData, pointEmitterIds and currentColorScheme
PlotWidget(data, ids, colorMap) ==
    [plotData |-> data, pointEmitterIds |-> ids, currentColorScheme |-> colorMap]

\* QRectF(left, top, width, height)
QRectF(left, top, width, height) ==
    [left |-> left, top |-> top, width |-> width, height |-> height]

\* The least (sign = 1) or the greatest (sign = -1) coordinate c of the points
\* from the i-th on, as the loop of calculateDataBoundingRect finds it
\* starting from best: a point replaces it only if it compares below (above).
RECURSIVE Extreme(_, _, _, _, _)
Extreme(plotData, c, sign, i, best) ==
    IF i > Len(plotData) THEN best
    ELSE Extreme(plotData, c, sign, i + 1,
                 IF (sign = 1 /\ Less(plotData[i][c], best))
                    \/ (sign = -1 /\ Less(best, plotData[i][c]))
                 THEN plotData[i][c] ELSE best)

\* One axis of calculateDataBoundingRect, from the least and the greatest
\* coordinate: equal ones are moved 0.5 apart each way, and a length that is
\* still 0 becomes 1.
AxisOfRect(lo, hi) ==
    LET length == IF Equal(lo, hi)
                  THEN Extent(PlusHalves(lo, -1), PlusHalves(hi, 1))
                  ELSE Extent(lo, hi)
    IN  [start  |-> IF Equal(lo, hi) THEN PlusHalves(lo, -1) ELSE lo,
         length |-> IF Equal(length, Halves(0)) THEN Double(1) ELSE length]

\* SimplePlotWidget::calculateDataBoundingRect: dataBoundingRect for the data
CalculateDataBoundingRect(plotData) ==
    IF plotData = <<>> THEN QRectF(Double(0), Double(0), Double(1), Double(1))
    ELSE LET x == AxisOfRect(Extreme(plotData, 1, 1, 1, plotData[1][1]),
                             Extreme(plotData, 1, -1, 1, plotData[1][1]))
             y == AxisOfRect(Extreme(plotData, 2, 1, 1, plotData[1][2]),
                             Extreme(plotData, 2, -1, 1, plotData[1][2]))
         IN  QRectF(x.start, y.start, x.length, y.length)

\* paintEvent goes on to draw the points: there are some, and neither length
\* of the rectangle compares <= 0.
DrawsPoints(plotData, rect) ==
    /\ plotData # <<>>
    /\ ~(Less(rect.width, Halves(0)) \/ Equal(rect.width, Halves(0)))
    /\ ~(Less(rect.height, Halves(0)) \/ Equal(rect.height, Halves(0)))

\* paintEvent's pointX - plotRect.left() for a point at x, that is
\* (x - dataBoundingRect.left()) * (plotRect.width() / dataBoundingRect.width()),
\* as a fraction of pixels; "nan" when a NaN enters it, "huge" when it is a
\* huge double.
PointXOffset(x, rect, plotRectWidth) ==
    LET dx == Extent(rect.left, x)
    IN  CASE dx.class = "nan" \/ rect.width.class = "nan" -> "nan"
          [] dx.class = "num" /\ rect.width.class = "num" ->
                [num |-> dx.halves * plotRectWidth, den |-> rect.width.halves]
          [] dx.class = "num" /\ rect.width.class = "huge" ->
                [num |-> 0, den |-> 1]                 \* below any pixel
          [] dx.class = "huge" /\ rect.width.class = "huge" ->
                [num |-> plotRectWidth, den |-> 1]     \* to within rounding
          [] OTHER -> "huge"

\* The state the MainWindow constructor leaves: no table, no filters, empty
\* selectors, the 2D view, an empty plot, the three actions disabled.
NewMainWindow ==
    [currentCsvData         |-> EmptyCsvData,
     currentlyDisplayedData |-> EmptyCsvData,
     headerFilters          |-> <<>>,
     xComboBox              |-> ComboBox(<<>>, -1),
     yComboBox              |-> ComboBox(<<>>, -1),
     currentEmitterColumn   |-> <<>>,
     emitterColorMap        |-> <<>>,
     nextColorIndex         |-> 0,
     is3DViewActive         |-> FALSE,
     currentPlotPoints      |-> <<>>,
     currentPlotEmitterIds  |-> <<>>,
     plotWidget             |-> PlotWidget(<<>>, <<>>, <<>>),
     saveImageAction        |-> FALSE,
     resetViewAction        |-> FALSE,
     exportFilteredAction   |-> FALSE,
     \* history: the distinct ids >= 0 getEmitterColor was called with since
     \* emitterColorMap was last cleared, in the order of their first call
     lookedUp               |-> <<>>]

\* QMap::insert on a map kept as a function
MapInsert(map, key, value) ==
    [k \in (DOMAIN map) \cup {key} |-> IF k = key THEN value ELSE map[k]]

\* A lookup that gives every new id a palette slot (a wrong getEmitterColor, to
\* test the properties' sensitivity)
GetEmitterColorAny(map, next, emitterId) ==
    IF emitterId \in DOMAIN map
    THEN [color |-> map[emitterId], map |-> map, next |-> next]
    ELSE [color |-> vibrantColors[(next % Len(vibrantColors)) + 1],
          map   |-> MapInsert(map, emitterId,
                              vibrantColors[(next % Len(vibrantColors)) + 1]),
          next  |-> next + 1]

\* A lookup that takes a new palette slot on every call (a wrong
\* getEmitterColor, to test the properties' sensitivity)
GetEmitterColorNoMemo(map, next, emitterId) ==
    IF emitterId = -2 THEN [color |-> "red", map |-> map, next |-> next]
    ELSE IF emitterId < 0 THEN [color |-> "darkGray", map |-> map, next |-> next]
    ELSE [color |-> vibrantColors[(next % Len(vibrantColors)) + 1],
          map   |-> MapInsert(map, emitterId,
                              vibrantColors[(next % Len(vibrantColors)) + 1]),
          next  |-> next + 1]

\* MainWindow::getEmitterColor: the colour returned, and the colour map and
\* the palette index it leaves.
GetEmitterColor(map, next, emitterId) ==
    IF emitterId = -2 THEN [color |-> "red", map |-> map, next |-> next]
    ELSE IF emitterId < 0 THEN [color |-> "darkGray", map |-> map, next |-> next]
    ELSE IF emitterId \in DOMAIN map
         THEN [color |-> map[emitterId], map |-> map, next |-> next]
    ELSE LET newColor == vibrantColors[(next % Len(vibrantColors)) + 1]
         IN  [color |-> newColor,
              map   |-> MapInsert(map, emitterId, newColor),
              next  |-> next + 1]

\* The history of first calls, after a call with the given id
FirstCalls(history, emitterId) ==
    IF emitterId < 0 \/ \E k \in 1..Len(history) : history[k] = emitterId
    THEN history
    ELSE Append(history, emitterId)

\* getEmitterColor called for each id of a list, in its order.
RECURSIVE LookUpAll(_, _)
LookUpAll(m, ids) ==
    IF ids = <<>> THEN m
    ELSE LET r == GetEmitterColor(m.emitterColorMap, m.nextColorIndex, Head(ids))
         IN  LookUpAll([m EXCEPT !.emitterColorMap = r.map,
                                 !.nextColorIndex = r.next,
                                 !.lookedUp = FirstCalls(@, Head(ids))],
                       Tail(ids))

\* The index (0-based) of the first header equal to name, or -1.
IndexOfHeader(headers, name) ==
    LET hits == {i \in 1..Len(headers) : headers[i] = name}
    IN  IF hits = {} THEN -1
        ELSE (CHOOSE i \in hits : \A j \in hits : i <= j) - 1

\* The last index (0-based) of a header equal to name, or -1: what a loop
\* that assigns on every match and never breaks leaves.
LastIndexOfHeader(headers, name) ==
    LET hits == {i \in 1..Len(headers) : headers[i] = name}
    IN  IF hits = {} THEN -1
        ELSE (CHOOSE i \in hits : \A j \in hits : j <= i) - 1

\* toInt(&ok) of the emitter cell: the id, or -2 when it does not parse.
EmitterIdOf(cell) == IF NumOk(cell) THEN NumVal(cell) ELSE -2

\* The emitter ids of the rows that have the column (a QSet<int>).
UniqueEmitterIds(rows, emitterColIdx) ==
    {EmitterIdOf(rows[i][emitterColIdx + 1]) :
        i \in {j \in 1..Len(rows) : Len(rows[j]) > emitterColIdx}}

\* std::sort of a set of ints
RECURSIVE Sorted(_)
Sorted(S) ==
    IF S = {} THEN <<>>
    ELSE LET lo == CHOOSE x \in S : \A y \in S : x <= y
         IN  <<lo>> \o Sorted(S \ {lo})

\* The orders in which a QSet<int> can be iterated.
RECURSIVE Orders(_)
Orders(S) ==
    IF S = {} THEN {<<>>}
    ELSE UNION {{<<x>> \o o : o \in Orders(S \ {x})} : x \in S}

\* paintEvent's pointColor for the i-th point (1-based) of a plot widget:
\* currentColorScheme.value(pointEmitterIds.value(i, -1), Qt::gray)
PointColor(widget, i) ==
    LET emitterId == IF i <= Len(widget.pointEmitterIds)
                     THEN widget.pointEmitterIds[i] ELSE -1
    IN  IF emitterId \in DOMAIN widget.currentColorScheme
        THEN widget.currentColorScheme[emitterId]
        ELSE "gray"

\* SimplePlotWidget::setData, called with the window's colour map
SetData(m, points, ids) ==
    [m EXCEPT !.plotWidget = PlotWidget(points, ids, m.emitterColorMap)]

\* MainWindow::updatePlot
UpdatePlot(m) ==
    LET cleared  == [m EXCEPT !.currentPlotPoints = <<>>,
                              !.currentPlotEmitterIds = <<>>]
        xColName == CurrentText(m.xComboBox)
        yColName == CurrentText(m.yComboBox)
        headers  == m.currentlyDisplayedData.headers
        rows     == m.currentlyDisplayedData.rows
        xColIdx  == LastIndexOfHeader(headers, xColName)
        yColIdx  == LastIndexOfHeader(headers, yColName)
        emitterColIdx == LastIndexOfHeader(headers, m.currentEmitterColumn)
        Plotted(row) ==
            /\ Len(row) > xColIdx /\ Len(row) > yColIdx
            /\ NumOk(row[xColIdx + 1]) /\ NumOk(row[yColIdx + 1])
        kept     == SelectSeq(rows, Plotted)
        points   == [i \in 1..Len(kept) |->
                        <<Double(NumVal(kept[i][xColIdx + 1])),
                          Double(NumVal(kept[i][yColIdx + 1]))>>]
        emitterIdsForPlot ==
            [i \in 1..Len(kept) |->
                IF emitterColIdx # -1 /\ Len(kept[i]) > emitterColIdx
                THEN EmitterIdOf(kept[i][emitterColIdx + 1])
                ELSE -1]
        noPlot   == [SetData(cleared, <<>>, <<>>) EXCEPT
                        !.saveImageAction = FALSE, !.resetViewAction = FALSE]
    IN  IF m.is3DViewActive THEN noPlot
        ELSE IF xColName = <<>> \/ yColName = <<>> \/ rows = <<>> THEN noPlot
        ELSE IF xColIdx = -1 \/ yColIdx = -1 THEN noPlot
        ELSE [SetData(m, points, emitterIdsForPlot) EXCEPT
                !.currentPlotPoints = points,
                !.currentPlotEmitterIds = emitterIdsForPlot,
                !.saveImageAction = (points # <<>>),
                !.resetViewAction = (points # <<>>)]

\* MainWindow::updateLegend, for what it changes: the colours it looks up
UpdateLegend(m) ==
    LET headers == m.currentlyDisplayedData.headers
        rows    == m.currentlyDisplayedData.rows
        emitterColIdx == IF m.currentEmitterColumn # <<>>
                         THEN IndexOfHeader(headers, m.currentEmitterColumn)
                         ELSE -1
    IN  IF m.is3DViewActive \/ rows = <<>> \/ emitterColIdx = -1 THEN m
        ELSE LookUpAll(m, Sorted(UniqueEmitterIds(rows, emitterColIdx)))

\* MainWindow::updateTableDisplay, for the filter boxes it rebuilds: one empty
\* QLineEdit per column shown.
UpdateTableDisplay(m) ==
    LET shown == m.currentlyDisplayedData
        columns == IF shown.headers = <<>> /\ shown.rows = <<>>
                      /\ m.currentCsvData.headers # <<>>
                   THEN Len(m.currentCsvData.headers)
                   ELSE Len(shown.headers)
    IN  [m EXCEPT !.headerFilters = [j \in 1..columns |-> <<>>]]

\* A refresh that leaves the export action as it was (a wrong variant, to test
\* the properties' sensitivity)
RefreshKeepsExport(m) == UpdateLegend(UpdatePlot(UpdateTableDisplay(m)))

\* updateTableDisplay(); updatePlot(); updateLegend(); and the export action
Refresh(m) ==
    LET r == UpdateLegend(UpdatePlot(UpdateTableDisplay(m)))
    IN  [r EXCEPT !.exportFilteredAction = (r.currentlyDisplayedData.rows # <<>>)]

\* MainWindow::clearTableFilters
ClearTableFilters(m) ==
    Refresh([m EXCEPT !.headerFilters = [j \in 1..Len(@) |-> <<>>],
                      !.currentlyDisplayedData = m.currentCsvData])

\* Containment only (a wrong filter rule, to test the properties' sensitivity)
FilterContains(cellValue, filterText) == ContainsCI(cellValue, filterText)

\* One filter against one cell (the body of the inner loop of
\* applyTableFilters): a comparison, a range, or containment.
FilterMatches(cellValue, filterText) ==
    LET two      == \/ StartsWith(filterText, <<"=", "=">>)
                    \/ StartsWith(filterText, <<">", "=">>)
                    \/ StartsWith(filterText, <<"<", "=">>)
        numPart  == Mid(filterText, IF two THEN 2 ELSE 1)
        okCell   == NumOk(cellValue)
        cellNum  == NumVal(cellValue)
        rangeParts == Split(filterText, ":")
        contains == ContainsCI(cellValue, filterText)
    IN  IF \/ StartsWith(filterText, <<">">>) \/ StartsWith(filterText, <<"<">>)
           \/ StartsWith(filterText, <<"=">>)
        THEN IF okCell /\ NumOk(numPart)
             THEN CASE StartsWith(filterText, <<">", "=">>) -> cellNum >= NumVal(numPart)
                    [] StartsWith(filterText, <<"<", "=">>) -> cellNum <= NumVal(numPart)
                    [] StartsWith(filterText, <<">">>)      -> cellNum > NumVal(numPart)
                    [] StartsWith(filterText, <<"<">>)      -> cellNum < NumVal(numPart)
                    [] OTHER                                 -> cellNum = NumVal(numPart)
             ELSE contains
        ELSE IF Contains(filterText, <<":">>)
        THEN IF /\ Len(rangeParts) = 2 /\ okCell
                /\ NumOk(rangeParts[1]) /\ NumOk(rangeParts[2])
             THEN cellNum >= NumVal(rangeParts[1]) /\ cellNum <= NumVal(rangeParts[2])
             ELSE contains
        ELSE contains

\* The inner loop of applyTableFilters from column j (0-based) on: TRUE when
\* no active filter from there on fails; it stops at the first that does.
RECURSIVE FilterLoop(_, _, _)
FilterLoop(row, activeFilters, j) ==
    IF ~(j < Len(activeFilters) /\ j < Len(row)) THEN TRUE
    ELSE IF activeFilters[j + 1] # <<>>
            /\ ~FilterMatches(row[j + 1], activeFilters[j + 1]) THEN FALSE
    ELSE FilterLoop(row, activeFilters, j + 1)

\* A row kept when any active filter matches (a wrong verdict, to test the
\* properties' sensitivity)
MatchesAnyFilter(row, activeFilters) ==
    \E j \in 1..Min(Len(row), Len(activeFilters)) :
        activeFilters[j] # <<>> /\ FilterMatches(row[j], activeFilters[j])

\* A verdict that looks at the cells a row has, however short the row is (a
\* wrong verdict, to test the properties' sensitivity)
MatchesOnCellsPresent(row, activeFilters) == FilterLoop(row, activeFilters, 0)

\* The row loop's verdict on one row: matchesAllFilters.
MatchesAllFilters(row, activeFilters) ==
    IF Len(row) < Len(activeFilters) THEN FALSE
    ELSE FilterLoop(row, activeFilters, 0)

\* Filters applied to the rows shown, not to the rows loaded (a wrong
\* applyTableFilters, to test the properties' sensitivity)
ApplyToRowsShown(m) ==
    LET activeFilters == [i \in 1..Len(m.headerFilters) |-> Trimmed(m.headerFilters[i])]
        anyFilterActive == \E i \in 1..Len(activeFilters) : activeFilters[i] # <<>>
        Keep(row) == MatchesAllFilters(row, activeFilters)
        tempFilteredData == CsvData(m.currentCsvData.headers,
                                    SelectSeq(m.currentlyDisplayedData.rows, Keep))
    IN  Refresh([m EXCEPT !.currentlyDisplayedData =
                    IF anyFilterActive THEN tempFilteredData ELSE m.currentCsvData])

\* MainWindow::applyTableFilters
ApplyTableFilters(m) ==
    LET activeFilters == [i \in 1..Len(m.headerFilters) |-> Trimmed(m.headerFilters[i])]
        anyFilterActive == \E i \in 1..Len(activeFilters) : activeFilters[i] # <<>>
        Keep(row) == MatchesAllFilters(row, activeFilters)
        tempFilteredData == CsvData(m.currentCsvData.headers,
                                    SelectSeq(m.currentCsvData.rows, Keep))
    IN  Refresh([m EXCEPT !.currentlyDisplayedData =
                    IF anyFilterActive THEN tempFilteredData ELSE m.currentCsvData])

\* QString::replace("\"", "\"\"")
RECURSIVE QuotesDoubled(_)
QuotesDoubled(s) ==
    IF s = <<>> THEN <<>>
    ELSE (IF Head(s) = "\"" THEN <<"\"", "\"">> ELSE <<Head(s)>>)
            \o QuotesDoubled(Tail(s))

\* A row field as exportFilteredData writes it
ExportField(field) ==
    IF \/ Contains(field, <<",">>) \/ Contains(field, <<"\"">>)
       \/ Contains(field, <<"\n">>)
    THEN <<"\"">> \o QuotesDoubled(field) \o <<"\"">>
    ELSE field

\* QStringList::join(',')
RECURSIVE JoinFields(_)
JoinFields(fields) ==
    IF fields = <<>> THEN <<>>
    ELSE IF Len(fields) = 1 THEN fields[1]
    ELSE fields[1] \o <<",">> \o JoinFields(Tail(fields))

\* The lines exportFilteredData writes for a table: the headers joined as they
\* are, then each row with its fields escaped.
ExportLines(data) ==
    <<JoinFields(data.headers)>> \o
    [i \in 1..Len(data.rows) |->
        JoinFields([j \in 1..Len(data.rows[i]) |-> ExportField(data.rows[i][j])])]

(***************************************************************************)
(* CsvLoader::run, one step at a time                                      *)
(***************************************************************************)

\* The worker thread of a loader: where it is in run(), and run()'s locals.
\* observed records that a read of isCancelled returned true.
Thread(pc, filePath) ==
    [pc |-> pc, filePath |-> filePath, fileSize |-> 0, bytesRead |-> 0,
     rowsLoaded |-> 0, linesRead |-> 0, csvData |-> EmptyCsvData,
     observed |-> FALSE]

NoThread == Thread("none", "")

\* A percentage that is not capped (a wrong variant, to test the properties'
\* sensitivity)
PercentageNoCap(bytesRead, fileSize) ==
    IF fileSize > 0 THEN (bytesRead * 100) \div fileSize ELSE 0

\* (bytesRead * 100) / fileSize, capped at 100; 0 when the size is not positive
Percentage(bytesRead, fileSize) ==
    LET percentage == IF fileSize > 0 THEN (bytesRead * 100) \div fileSize ELSE 0
    IN  IF percentage > 100 THEN 100 ELSE percentage

\* The progressUpdated signals of the rows that are multiples of
\* PROGRESS_EVERY, from the j-th multiple on (count of them left), when bytes
\* have been read up to line `line` (row `row`).
RECURSIVE ProgressSignals(_, _, _, _, _, _, _)
ProgressSignals(lines, fileSize, bytes, line, row, j, count) ==
    IF count = 0 THEN <<>>
    ELSE LET n == j * PROGRESS_EVERY
             bytesRead == bytes + LineBytes(lines, line + 1, line + (n - row))
         IN  <<ProgressUpdated(Percentage(bytesRead, fileSize), "rows loaded...", n)>>
             \o ProgressSignals(lines, fileSize, bytesRead, line + (n - row), n,
                                j + 1, count - 1)

\* csvData.rows of the worker, a std::vector of rows, is kept run-length
\* encoded: a sequence of runs, each a row and the number of times it is
\* repeated in a row.  No two neighbouring runs have the same row.

\* The vector a with the vector b appended.
Join(a, b) ==
    IF a = <<>> THEN b
    ELSE IF b = <<>> THEN a
    ELSE IF a[Len(a)].row = b[1].row
    THEN SubSeq(a, 1, Len(a) - 1)
         \o <<[row |-> b[1].row, n |-> a[Len(a)].n + b[1].n]>>
         \o Tail(b)
    ELSE a \o b

\* The vector of the rows lo..hi of a sequence of rows, pushed back in order.
RECURSIVE PushedBack(_, _, _)
PushedBack(rows, lo, hi) ==
    IF lo > hi THEN <<>>
    ELSE IF lo = hi THEN <<[row |-> rows[lo], n |-> 1]>>
    ELSE Join(PushedBack(rows, lo, (lo + hi) \div 2),
              PushedBack(rows, ((lo + hi) \div 2) + 1, hi))

\* The rows of a vector, one by one.
RECURSIVE Rows(_)
Rows(runs) ==
    IF runs = <<>> THEN <<>>
    ELSE [i \in 1..runs[1].n |-> runs[1].row] \o Rows(Tail(runs))

\* rows.size()
RECURSIVE Size(_)
Size(runs) == IF runs = <<>> THEN 0 ELSE runs[1].n + Size(Tail(runs))

\* The table a slot receives: its rows one by one.
Received(data) == CsvData(data.headers, Rows(data.rows))

\* Wrong variants of the three definitions below, to test the properties'
\* sensitivity: every path exists; the loop has no row cap; the check after the
\* loop does not read the flag; the last progress signal follows the table.
QFileExistsAlways(file) == TRUE

RemainingNoCap(linesLeft, rowsLoaded) == linesLeft

OutcomeIgnoringCancel(cancelled, rowsLoaded, csvData) ==
    IF rowsLoaded = 0 /\ csvData.headers = <<>>
    THEN <<ErrorOccurred("No data loaded from CSV.")>>
    ELSE <<LoadingFinished(csvData)>>

OutcomeProgressLast(cancelled, rowsLoaded, csvData) ==
    IF cancelled
    THEN <<ErrorOccurred("Loading cancelled by user during row processing.")>>
    ELSE <<LoadingFinished(csvData),
           ProgressUpdated(100, "Finished loading", rowsLoaded)>>

\* QFile::exists
QFileExists(file) == file.exists

\* The number of iterations the condition of the row loop still allows:
\* !in.atEnd() && rowsLoaded < MAX_ROWS_TO_LOAD
Remaining(linesLeft, rowsLoaded) ==
    Min(linesLeft, MAX_ROWS_TO_LOAD - rowsLoaded)

\* The signals run() emits after the row loop.
Outcome(cancelled, rowsLoaded, csvData) ==
    IF cancelled
    THEN <<ErrorOccurred("Loading cancelled by user during row processing.")>>
    ELSE IF rowsLoaded = 0 /\ csvData.headers = <<>>
    THEN <<ErrorOccurred("No data loaded from CSV.")>>
    ELSE IF rowsLoaded = 0 /\ csvData.headers # <<>>
    THEN <<LoadingFinished(csvData)>>
    ELSE <<ProgressUpdated(100, "Finished loading", rowsLoaded),
           LoadingFinished(csvData)>>

(***************************************************************************)
(* The state                                                               *)
(***************************************************************************)

VARIABLES
    thread,       \* [Loaders -> Thread]: each loader's worker thread
    isCancelled,  \* [Loaders -> BOOLEAN]: the flag, as cancel() stored it
    workerView,   \* [Loaders -> BOOLEAN]: the flag, as the worker's reads see it
    emitted,      \* [Loaders -> Seq(signal)]: what run() has emitted so far
    object,       \* [Loaders -> {"none", "alive", "destroyed"}]: the QThread object
    deferred,     \* [Loaders -> Int]: event-loop depth of a pending deleteLater, or -1
    queue,        \* the queued signal deliveries posted to the interactive thread
    csvLoader,    \* MainWindow::csvLoader (0 for nullptr)
    mainPc,       \* "idle", "openWait", "closeWait" or "closed"
    filePath,     \* openCsvFile's filePath while it waits for the old loader
    msgBoxes,     \* QMessageBox::critical dialogs of handleCsvLoadingError open
    mw,           \* the MainWindow's fields
    lastHandler,  \* the last slot the interactive thread ran, and its input
    crashed,      \* the process aborted (a QThread destroyed while running)
    exported,     \* the file exportFilteredData wrote, and the table it wrote
    cancelledAt   \* [Loaders -> Int]: rowsLoaded when cancel() was called, or -1

vars == <<thread, isCancelled, workerView, emitted, object, deferred, queue,
          csvLoader, mainPc, filePath, msgBoxes, mw, lastHandler, crashed,
          exported, cancelledAt>>

loaderVars == <<thread, isCancelled, workerView, emitted, object, deferred,
                queue, csvLoader, mainPc, filePath, msgBoxes, crashed,
                cancelledAt>>

\* The file a path of the open dialog leads to: the exported file, or one of
\* the files that are only read.
FileAt(path) == IF path = "export.csv" THEN exported.file ELSE FileSystem[path]

\* One step of run() in thread state t, when a read of isCancelled gives
\* cancelled: the thread state after the step and the signals it emits.
RunStep(t, cancelled) ==
    LET file   == FileAt(t.filePath)
        lines  == file.lines
        left   == Remaining(Len(lines) - t.linesRead, t.rowsLoaded)
        Go(pc, out) == [t |-> [t EXCEPT !.pc = pc], out |-> out]
    IN  CASE t.pc = "exists" ->
               IF ~QFileExists(file)
               THEN Go("return", <<ErrorOccurred("File not found")>>)
               ELSE Go("open", <<>>)
          [] t.pc = "open" ->
               IF ~file.openable
               THEN Go("return", <<ErrorOccurred("Failed to open file")>>)
               ELSE [t |-> [t EXCEPT !.pc = "header", !.fileSize = file.size],
                     out |-> <<>>]
          [] t.pc = "header" ->
               IF Len(lines) > 0
               THEN [t |-> [t EXCEPT !.pc = "poll",
                                     !.linesRead = 1,
                                     !.bytesRead = Len(lines[1]) + 1,
                                     !.csvData.headers = ParseLine(lines[1])],
                     out |-> <<ProgressUpdated(0, "Header loaded.", 0)>>]
               ELSE Go("return",
                       <<ErrorOccurred("File is empty or header could not be read.")>>)
          [] t.pc = "poll" ->
               IF cancelled
               THEN [t |-> [t EXCEPT !.pc = "return", !.observed = TRUE],
                     out |-> <<ErrorOccurred("Loading cancelled by user.")>>]
               ELSE Go("rows", <<>>)
          [] t.pc = "rows" ->
               IF left <= 0 THEN Go("after", <<>>)
               ELSE IF cancelled
               THEN [t |-> [t EXCEPT !.pc = "after", !.observed = TRUE], out |-> <<>>]
               ELSE \* k iterations of the loop body
                    LET k == Min(Burst(t.filePath), left)
                        read == [i \in 1..k |-> ParseLine(lines[t.linesRead + i])]
                        \* rows at which rowsLoaded % PROGRESS_EVERY = 0
                        first == (t.rowsLoaded \div PROGRESS_EVERY) + 1
                        count == ((t.rowsLoaded + k) \div PROGRESS_EVERY)
                                 - (t.rowsLoaded \div PROGRESS_EVERY)
                        Line(n) == n - t.rowsLoaded + t.linesRead
                    IN  [t |-> [t EXCEPT
                                  !.linesRead = @ + k,
                                  !.rowsLoaded = @ + k,
                                  !.bytesRead = @ + LineBytes(lines, t.linesRead + 1,
                                                              t.linesRead + k),
                                  !.csvData.rows = Join(@, PushedBack(read, 1, k))],
                         out |-> ProgressSignals(lines, t.fileSize, t.bytesRead,
                                                 Line(t.rowsLoaded), t.rowsLoaded,
                                                 first, count)]
          [] t.pc = "after" ->
               [t |-> [t EXCEPT !.pc = "return", !.observed = @ \/ cancelled],
                out |-> Outcome(cancelled, t.rowsLoaded, t.csvData)]
          [] t.pc = "return" -> Go("finished", <<>>)

\* A slot that has run: its name, the table it was given, the filter texts it
\* read, and the table that was loaded when it began.
Handler(op, data, filters, before) ==
    [op |-> op, data |-> data, filters |-> filters, before |-> before]

Ran(op) == Handler(op, EmptyCsvData, <<>>, EmptyCsvData)

Init ==
    /\ thread = [l \in Loaders |-> NoThread]
    /\ isCancelled = [l \in Loaders |-> FALSE]
    /\ workerView = [l \in Loaders |-> FALSE]
    /\ emitted = [l \in Loaders |-> <<>>]
    /\ object = [l \in Loaders |-> "none"]
    /\ deferred = [l \in Loaders |-> -1]
    /\ queue = <<>>
    /\ csvLoader = 0
    /\ mainPc = "idle"
    /\ filePath = ""
    /\ msgBoxes = 0
    /\ mw = NewMainWindow
    /\ lastHandler = Ran("MainWindow")
    /\ crashed = FALSE
    /\ exported = [file |-> File(FALSE, FALSE, <<>>), data |-> EmptyCsvData]
    /\ cancelledAt = [l \in Loaders |-> -1]

\* QThread::isRunning
IsRunning(l) == thread[l].pc \notin {"none", "finished"}

\* The thread is inside run().
InRun(l) == thread[l].pc \notin {"none", "finished"}

(***************************************************************************)
(* The worker threads                                                      *)
(***************************************************************************)

\* A signal emitted in the worker thread is queued for the interactive
\* thread's slots while the MainWindow exists.
Worker(l) ==
    /\ ~crashed
    /\ \E r \in {RunStep(thread[l], workerView[l])} :
           /\ thread' = [thread EXCEPT ![l] = r.t]
           /\ emitted' = [emitted EXCEPT ![l] = @ \o r.out]
           /\ queue' = IF mainPc = "closed" THEN queue
                       ELSE queue \o [i \in 1..Len(r.out) |->
                                        [from |-> l, signal |-> r.out[i]]]
    /\ UNCHANGED <<isCancelled, workerView, object, deferred, csvLoader, mainPc,
                   filePath, msgBoxes, mw, lastHandler, crashed, exported,
                   cancelledAt>>

CheckExists(l) == thread[l].pc = "exists" /\ Worker(l)

OpenFile(l)    == thread[l].pc = "open" /\ Worker(l)

ReadHeader(l)  == thread[l].pc = "header" /\ Worker(l)

PollCancel(l)  == thread[l].pc = "poll" /\ Worker(l)

ReadRows(l)    == thread[l].pc = "rows" /\ Worker(l)

AfterLoop(l)   == thread[l].pc = "after" /\ Worker(l)

Return(l)      == thread[l].pc = "return" /\ Worker(l)

\* isCancelled is a volatile bool, not an atomic: the store made by cancel()
\* in the interactive thread reaches the worker's reads some time later.
CancelVisible(l) ==
    /\ ~crashed
    /\ isCancelled[l] /\ ~workerView[l]
    /\ workerView' = [workerView EXCEPT ![l] = TRUE]
    /\ UNCHANGED <<thread, isCancelled, emitted, object, deferred, queue,
                   csvLoader, mainPc, filePath, msgBoxes, mw, lastHandler, crashed,
                   exported, cancelledAt>>

(***************************************************************************)
(* The interactive thread: openCsvFile and the destructor                  *)
(***************************************************************************)

\* The user can act: no slot is running and no modal dialog is open.
Interactive == ~crashed /\ mainPc = "idle" /\ msgBoxes = 0

LoadsStarted == Cardinality({l \in Loaders : object[l] # "none"})

\* openCsvFile from "delete csvLoader" on: the old object is deleted, a new
\* loader is created for the path and its thread started.
StartLoad(path) ==
    LET n == LoadsStarted + 1
    IN  /\ object' = [l \in Loaders |->
                        IF l = n THEN "alive"
                        ELSE IF l = csvLoader THEN "destroyed"
                        ELSE object[l]]
        /\ thread' = [thread EXCEPT ![n] = Thread("exists", path)]
        /\ csvLoader' = n
        /\ mainPc' = "idle"
        /\ filePath' = ""
        /\ lastHandler' = Ran("openCsvFile")

\* CsvLoader::cancel() called on loader l by the interactive thread
Cancel(l) ==
    /\ isCancelled' = [isCancelled EXCEPT ![l] = TRUE]
    /\ cancelledAt' = [cancelledAt EXCEPT ![l] = thread[l].rowsLoaded]

\* MainWindow::openCsvFile with a path chosen in the dialog: a running loader
\* is cancelled and waited for first.
OpenCsvFile(path) ==
    /\ Interactive
    /\ LoadsStarted < MaxLoads
    /\ IF csvLoader # 0 /\ IsRunning(csvLoader)
       THEN /\ Cancel(csvLoader)
            /\ mainPc' = "openWait"
            /\ filePath' = path
            /\ UNCHANGED <<object, thread, csvLoader, lastHandler>>
       ELSE /\ StartLoad(path)
            /\ UNCHANGED <<isCancelled, cancelledAt>>
    /\ UNCHANGED <<workerView, emitted, deferred, queue, msgBoxes, mw, crashed,
                   exported>>

\* csvLoader->wait() returns: the old thread has finished.
OpenCsvFileJoined ==
    /\ ~crashed
    /\ mainPc = "openWait"
    /\ ~IsRunning(csvLoader)
    /\ StartLoad(filePath)
    /\ UNCHANGED <<isCancelled, workerView, emitted, deferred, queue, msgBoxes,
                   mw, crashed, exported, cancelledAt>>

\* The end of ~MainWindow: the window and its child objects are destroyed; a
\* child QThread that is still running aborts the process.
TearDown ==
    /\ mainPc' = "closed"
    /\ object' = [l \in Loaders |-> IF object[l] = "alive" THEN "destroyed"
                                    ELSE object[l]]
    /\ deferred' = [l \in Loaders |-> -1]
    /\ queue' = <<>>
    /\ crashed' = \E l \in Loaders : object[l] = "alive" /\ IsRunning(l)
    /\ lastHandler' = Ran("~MainWindow")

\* MainWindow::~MainWindow: a running loader is cancelled and waited for.
CloseWindow ==
    /\ Interactive
    /\ IF csvLoader # 0 /\ IsRunning(csvLoader)
       THEN /\ Cancel(csvLoader)
            /\ mainPc' = "closeWait"
            /\ UNCHANGED <<object, deferred, queue, crashed, lastHandler>>
       ELSE /\ TearDown
            /\ UNCHANGED <<isCancelled, cancelledAt>>
    /\ UNCHANGED <<thread, workerView, emitted, csvLoader, filePath, msgBoxes, mw,
                   exported>>

CloseWindowJoined ==
    /\ ~crashed
    /\ mainPc = "closeWait"
    /\ ~IsRunning(csvLoader)
    /\ TearDown
    /\ UNCHANGED <<thread, isCancelled, workerView, emitted, csvLoader, filePath,
                   msgBoxes, mw, exported, cancelledAt>>

\* The deferred delete of a loader posted by deleteLater, run once control is
\* back in the event loop the slot was called from (or an outer one).
\* ~QThread on a thread that has not finished aborts the process.
DeferredDelete(l) ==
    /\ ~crashed
    /\ mainPc = "idle"
    /\ deferred[l] >= 0
    /\ msgBoxes <= deferred[l]
    /\ deferred' = [deferred EXCEPT ![l] = -1]
    /\ object' = [object EXCEPT ![l] = "destroyed"]
    /\ crashed' = IsRunning(l)
    /\ UNCHANGED <<thread, isCancelled, workerView, emitted, queue, csvLoader,
                   mainPc, filePath, msgBoxes, mw, lastHandler, exported,
                   cancelledAt>>

(***************************************************************************)
(* The interactive thread: the slots                                       *)
(***************************************************************************)

\* QComboBox::clear(): a box that had a current item emits currentTextChanged,
\* which is connected to updatePlot.
ComboClear(m, box) ==
    IF m[box].items = <<>> THEN m
    ELSE UpdatePlot([m EXCEPT ![box] = ComboBox(<<>>, -1)])

\* QComboBox::addItems(): the first item of an empty box becomes current, and
\* currentTextChanged calls updatePlot.
ComboAddItems(m, box, items) ==
    IF items = <<>> THEN m
    ELSE IF m[box].items = <<>>
    THEN UpdatePlot([m EXCEPT ![box] = ComboBox(items, 0)])
    ELSE [m EXCEPT ![box].items = @ \o items]

\* The column handleCsvLoadingFinished identifies as the emitter column: the
\* first header containing "emitter" in any case (0-based), or -1.
EmitterColumnIndex(headers) ==
    LET hits == {i \in 1..Len(headers) :
                    ContainsCI(headers[i], <<"e", "m", "i", "t", "t", "e", "r">>)}
    IN  IF hits = {} THEN -1
        ELSE (CHOOSE i \in hits : \A j \in hits : i <= j) - 1

\* xComboBox->clear(); yComboBox->clear(); and, with headers, addItems on both
FillSelectors(m, headersQt) ==
    ComboAddItems(ComboAddItems(ComboClear(ComboClear(m, "xComboBox"), "yComboBox"),
                                "xComboBox", headersQt),
                  "yComboBox", headersQt)

\* The emitter column is identified and the colour registry reset.
ResetEmitterColours(m, emitterColIdx) ==
    [m EXCEPT !.currentEmitterColumn =
                    IF emitterColIdx = -1 THEN <<>>
                    ELSE m.currentCsvData.headers[emitterColIdx + 1],
              !.emitterColorMap = <<>>,
              !.nextColorIndex = 0,
              !.lookedUp = <<>>]

\* handleCsvLoadingFinished up to the colour lookups: the table is replaced,
\* the filters cleared, the selectors refilled, the emitter column identified
\* and the colour map reset.
FinishedBeforeColours(m, data) ==
    ResetEmitterColours(
        FillSelectors(ClearTableFilters([m EXCEPT !.currentCsvData = data]),
                      data.headers),
        EmitterColumnIndex(data.headers))

\* The distinct ids of the emitter column of the loaded table
LoadedEmitterIds(data) ==
    IF EmitterColumnIndex(data.headers) = -1 THEN {}
    ELSE UniqueEmitterIds(data.rows, EmitterColumnIndex(data.headers))

\* The end of handleCsvLoadingFinished: the three actions.
FinishedActions(m) ==
    LET canInteract == ~m.is3DViewActive /\ m.currentlyDisplayedData.rows # <<>>
    IN  [m EXCEPT !.saveImageAction = canInteract,
                  !.resetViewAction = canInteract,
                  !.exportFilteredAction = (m.currentlyDisplayedData.rows # <<>>)]

\* if (csvLoader) { csvLoader->deleteLater(); csvLoader = nullptr; } in a slot
\* called from the event loop of the given depth
ReleaseLoader(depth) ==
    /\ deferred' = IF csvLoader = 0 THEN deferred
                   ELSE [deferred EXCEPT ![csvLoader] = depth]
    /\ csvLoader' = 0

\* A queued signal is delivered when the interactive thread is in an event
\* loop: the main one, or the one of an open message box.
Delivers(sig) ==
    /\ ~crashed
    /\ mainPc = "idle"
    /\ queue # <<>>
    /\ Head(queue).signal.sig = sig

\* MainWindow::handleCsvLoadingProgress (the status bar is not modelled)
HandleCsvLoadingProgress ==
    /\ Delivers("progressUpdated")
    /\ queue' = Tail(queue)
    /\ lastHandler' = Ran("handleCsvLoadingProgress")
    /\ UNCHANGED <<thread, isCancelled, workerView, emitted, object, deferred,
                   csvLoader, mainPc, filePath, msgBoxes, mw, crashed, exported,
                   cancelledAt>>

\* MainWindow::handleCsvLoadingFinished
HandleCsvLoadingFinished ==
    /\ Delivers("loadingFinished")
    /\ \E data \in {Received(Head(queue).signal.data)} :
           /\ \E order \in Orders(LoadedEmitterIds(data)) :
                 mw' = FinishedActions(LookUpAll(FinishedBeforeColours(mw, data),
                                                 order))
           /\ lastHandler' = Handler("handleCsvLoadingFinished", data, <<>>,
                                     mw.currentCsvData)
    /\ queue' = Tail(queue)
    /\ ReleaseLoader(msgBoxes)
    /\ UNCHANGED <<thread, isCancelled, workerView, emitted, object, mainPc,
                   filePath, msgBoxes, crashed, exported, cancelledAt>>

\* MainWindow::handleCsvLoadingError up to QMessageBox::critical, which runs
\* an event loop of its own until the user closes the box.
HandleCsvLoadingError ==
    /\ Delivers("errorOccurred")
    /\ queue' = Tail(queue)
    /\ msgBoxes' = msgBoxes + 1
    /\ UNCHANGED <<thread, isCancelled, workerView, emitted, object, deferred,
                   csvLoader, mainPc, filePath, mw, lastHandler, crashed, exported,
                   cancelledAt>>

\* An error handler that keeps the table (a wrong variant, to test the
\* properties' sensitivity)
ErrorKeepsTable(m) ==
    [m EXCEPT !.saveImageAction = FALSE,
              !.resetViewAction = FALSE,
              !.exportFilteredAction = FALSE]

\* handleCsvLoadingError after the message box
ErrorAfterBox(m) ==
    LET m1 == ClearTableFilters([m EXCEPT !.currentCsvData = EmptyCsvData,
                                          !.currentlyDisplayedData = EmptyCsvData])
        m2 == ComboClear(ComboClear(m1, "xComboBox"), "yComboBox")
    IN  [m2 EXCEPT !.saveImageAction = FALSE,
                   !.resetViewAction = FALSE,
                   !.exportFilteredAction = FALSE]

\* The user closes the (innermost) message box and handleCsvLoadingError
\* runs to its end.
HandleCsvLoadingErrorReturns ==
    /\ ~crashed
    /\ mainPc = "idle"
    /\ msgBoxes > 0
    /\ msgBoxes' = msgBoxes - 1
    /\ mw' = ErrorAfterBox(mw)
    /\ ReleaseLoader(msgBoxes - 1)
    /\ lastHandler' = Handler("handleCsvLoadingError", EmptyCsvData, <<>>,
                              mw.currentCsvData)
    /\ UNCHANGED <<thread, isCancelled, workerView, emitted, object, queue,
                   mainPc, filePath, crashed, exported, cancelledAt>>

(***************************************************************************)
(* The interactive thread: the user's actions                              *)
(***************************************************************************)

\* The user types a text into the filter box of column j (1-based).
EditFilter(j, text) ==
    /\ Interactive
    /\ j \in 1..Len(mw.headerFilters)
    /\ mw.headerFilters[j] # text
    /\ mw' = [mw EXCEPT !.headerFilters[j] = text]
    /\ UNCHANGED <<loaderVars, lastHandler, exported>>

\* The "Apply Filters" button
ApplyFilters ==
    /\ Interactive
    /\ mw' = ApplyTableFilters(mw)
    /\ lastHandler' = Handler("applyTableFilters", EmptyCsvData,
                              mw.headerFilters, mw.currentCsvData)
    /\ UNCHANGED <<loaderVars, exported>>

\* The "Clear Filters" button
ClearFilters ==
    /\ Interactive
    /\ mw' = ClearTableFilters(mw)
    /\ lastHandler' = Ran("clearTableFilters")
    /\ UNCHANGED <<loaderVars, exported>>

\* MainWindow::exportFilteredData through its menu action, with the path
\* "export.csv" chosen in the save dialog: nothing is written for a table
\* without rows.
ExportFilteredData ==
    /\ Interactive
    /\ mw.exportFilteredAction
    /\ exported' = IF mw.currentlyDisplayedData.rows = <<>> THEN exported
                   ELSE [file |-> File(TRUE, TRUE,
                                       ExportLines(mw.currentlyDisplayedData)),
                         data |-> mw.currentlyDisplayedData]
    /\ lastHandler' = Ran("exportFilteredData")
    /\ UNCHANGED <<loaderVars, mw>>

\* SimplePlotWidget::setData called with the given points (updatePlot calls
\* it with the points of the numeric cells; here they are any doubles).
SetDataCalled(points) ==
    /\ Interactive
    /\ points # mw.plotWidget.plotData
    /\ mw' = SetData(mw, points, [i \in 1..Len(points) |-> -1])
    /\ lastHandler' = Ran("setData")
    /\ UNCHANGED <<loaderVars, exported>>

\* The user picks item i (0-based) of the X or the Y selector.
SelectAxis(box, i) ==
    /\ Interactive
    /\ i \in 0..(Len(mw[box].items) - 1)
    /\ i # mw[box].index
    /\ mw' = UpdatePlot([mw EXCEPT ![box].index = i])
    /\ lastHandler' = Ran("updatePlot")
    /\ UNCHANGED <<loaderVars, exported>>

\* MainWindow::toggleViewMode
ToggleViewMode ==
    /\ Interactive
    /\ LET m1 == [mw EXCEPT !.is3DViewActive = ~@]
           canInteractWithPlot == ~m1.is3DViewActive /\ m1.currentPlotPoints # <<>>
           m2 == [m1 EXCEPT !.saveImageAction = canInteractWithPlot,
                            !.resetViewAction = canInteractWithPlot]
       IN  mw' = UpdateLegend(UpdatePlot(m2))
    /\ lastHandler' = Ran("toggleViewMode")
    /\ UNCHANGED <<loaderVars, exported>>

(***************************************************************************)
(* Specifications                                                          *)
(***************************************************************************)

\* Filter texts typed in the application runs.
AppFilterTexts == {<<>>, <<"1">>}

\* Filter texts typed in the filter runs: blank, comparisons, ranges, texts.
FilterTexts ==
    { <<>>, <<" ">>, <<">", "5">>, <<"a">>, <<"A", " ">>,
      <<"1", "0", ":", "2", "0">>, <<"2", "0", ":", "1", "0">>,
      <<"=", "=", "6">>, <<"<", "=", "6">> }

\* The steps of run()
RunNext ==
    \E l \in Loaders :
        \/ CheckExists(l)
        \/ OpenFile(l)
        \/ ReadHeader(l)
        \/ PollCancel(l)
        \/ ReadRows(l)
        \/ AfterLoop(l)
        \/ Return(l)

WorkerNext ==
    \/ RunNext
    \/ \E l \in Loaders : CancelVisible(l)

\* The slots of a load that succeeds
LoadedNext ==
    \/ HandleCsvLoadingProgress
    \/ HandleCsvLoadingFinished
    \/ \E l \in Loaders : DeferredDelete(l)

SlotNext ==
    \/ LoadedNext
    \/ HandleCsvLoadingError
    \/ HandleCsvLoadingErrorReturns

\* The application: loads of the short files, started, replaced and handled
\* in every interleaving with the user's actions.
Next ==
    \/ WorkerNext
    \/ SlotNext
    \/ \E path \in AppFiles : OpenCsvFile(path)
    \/ OpenCsvFileJoined
    \/ CloseWindow
    \/ CloseWindowJoined
    \/ \E j \in 1..2, text \in AppFilterTexts : EditFilter(j, text)
    \/ ApplyFilters
    \/ ClearFilters

Spec == Init /\ [][Next]_vars

\* One load of any file, the long one included, which the closing of the
\* window may cancel; the signals stay queued.
NextLoad ==
    \/ WorkerNext
    \/ \E path \in LoadFiles : LoadsStarted = 0 /\ OpenCsvFile(path)
    \/ CloseWindow
    \/ CloseWindowJoined

SpecLoad == Init /\ [][NextLoad]_vars

\* One load of a table, then filters typed, applied and cleared.
NextFilter ==
    \/ RunNext
    \/ LoadedNext
    \/ \E path \in FilterFiles : LoadsStarted = 0 /\ OpenCsvFile(path)
    \/ \E j \in 1..2, text \in FilterTexts : EditFilter(j, text)
    \/ ApplyFilters
    \/ ClearFilters

SpecFilter == Init /\ [][NextFilter]_vars

\* One load of a table, then the plot: axes selected, the view toggled, rows
\* filtered.
NextView ==
    \/ RunNext
    \/ LoadedNext
    \/ \E path \in FilterFiles : LoadsStarted = 0 /\ OpenCsvFile(path)
    \/ \E j \in 1..2, text \in AppFilterTexts : EditFilter(j, text)
    \/ ApplyFilters
    \/ ClearFilters
    \/ \E box \in {"xComboBox", "yComboBox"}, i \in 0..1 : SelectAxis(box, i)
    \/ ToggleViewMode

SpecView == Init /\ [][NextView]_vars

\* One load of a table, filters, the displayed table exported, and the
\* exported file opened in turn.
NextExport ==
    \/ RunNext
    \/ LoadedNext
    \/ \E path \in ExportFiles : LoadsStarted = 0 /\ OpenCsvFile(path)
    \/ \E j \in 1..2, text \in AppFilterTexts : EditFilter(j, text)
    \/ ApplyFilters
    \/ ClearFilters
    \/ LoadsStarted = 1 /\ ExportFilteredData
    \/ LoadsStarted = 1 /\ exported.file.exists /\ OpenCsvFile("export.csv")

SpecExport == Init /\ [][NextExport]_vars

\* Most points in a plot of the plot runs
MaxPoints == 2

\* Coordinates of the plot runs: numbers, a huge double, a NaN
PlotCoordinates == {Double(0), Double(3), Huge, NaN}

\* The point lists of the plot runs
PlotInputs ==
    UNION {[1..n -> PlotCoordinates \X PlotCoordinates] : n \in 0..MaxPoints}

\* The plot widget given any of the point lists
NextPlot == \E points \in PlotInputs : SetDataCalled(points)

SpecPlot == Init /\ [][NextPlot]_vars

\* Loads one after the other, each opened when the one before has been
\* handled and its thread has ended, and the axes selected in between.
NextReload ==
    \/ RunNext
    \/ LoadedNext
    \/ \E path \in ReloadFiles :
          /\ queue = <<>>
          /\ \A l \in Loaders : ~IsRunning(l)
          /\ OpenCsvFile(path)
    \/ \E box \in {"xComboBox", "yComboBox"}, i \in 0..1 : SelectAxis(box, i)

SpecReload == Init /\ [][NextReload]_vars

\* Filter texts typed in the rule runs: every operator, operators without a
\* number, ranges of two and three parts, an inverted range, texts.
RuleTexts ==
    { <<>>, <<">", "5">>, <<">", "=", "6">>, <<"<", "6">>, <<"<", "=", "6">>,
      <<"=", "6">>, <<"=", "=", "6">>, <<" ", "=", "6", " ">>, <<">", "=">>,
      <<"=", "x">>, <<">", "5", ":", "7">>,
      <<"5", ":", "7">>, <<"7", ":", "5">>, <<"5", ":", "x">>,
      <<"5", ":", "6", ":", "7">>, <<"X", " ">>, <<"6">> }

\* One load of the one-column table, then filters typed, applied and cleared.
NextRule ==
    \/ RunNext
    \/ LoadedNext
    \/ LoadsStarted = 0 /\ OpenCsvFile("rule.csv")
    \/ \E text \in RuleTexts : EditFilter(1, text)
    \/ ApplyFilters
    \/ ClearFilters

SpecRule == Init /\ [][NextRule]_vars


(***************************************************************************)
(* Properties                                                              *)
(***************************************************************************)

\* run() of loader l has emitted its outcome: it is returning or has returned.
Ended(l) == thread[l].pc \in {"return", "finished"}

Last(s) == s[Len(s)]

\* The positions of the terminal signals among what loader l emitted
Terminals(l) == {i \in 1..Len(emitted[l]) : IsTerminal(emitted[l][i])}

\* The lines of the file loader l reads
LinesOf(l) == FileSystem[thread[l].filePath].lines

\* The file exists, opens and has a header line.
Readable(path) ==
    /\ FileSystem[path].exists
    /\ FileSystem[path].openable
    /\ Len(FileSystem[path].lines) > 0

\* The number of rows a complete load of the file of loader l delivers
RowsDue(l) == Min(Len(LinesOf(l)) - 1, MAX_ROWS_TO_LOAD)

IsBlank(s) == \A i \in 1..Len(s) : s[i] = " "

\* C1: a run on a readable file (a header line and N data lines), with no
\* cancel requested, ends by emitting loadingFinished with a table whose header
\* list is not empty and whose rows are the first min(N, 50000) data lines,
\* split and trimmed, in file order; for N = 0 the table has no rows.
C1_LoadDeliversRowsUpToCap ==
    \A l \in Loaders :
        (Ended(l) /\ Readable(thread[l].filePath) /\ ~isCancelled[l]) =>
            /\ emitted[l] # <<>>
            /\ Last(emitted[l]).sig = "loadingFinished"
            /\ Last(emitted[l]).data.headers # <<>>
            /\ Last(emitted[l]).data.headers = ParseLine(LinesOf(l)[1])
            /\ Rows(Last(emitted[l]).data.rows) =
                    [i \in 1..RowsDue(l) |-> ParseLine(LinesOf(l)[i + 1])]

\* A load of the file that is one line longer than the cap has ended, not
\* cancelled, with a table of exactly 50000 rows.
C1_Witness ==
    \E l \in Loaders :
        /\ thread[l].pc = "finished"
        /\ thread[l].filePath = "long.csv"
        /\ ~isCancelled[l]
        /\ Len(LinesOf(l)) - 1 > MAX_ROWS_TO_LOAD
        /\ Size(Last(emitted[l]).data.rows) = MAX_ROWS_TO_LOAD

\* C2: once the worker has read the cancel flag as set (at the poll, at the
\* top of a row iteration or after the loop), the load never emits
\* loadingFinished and ends with one of the two cancelled errors; every table
\* that loadingFinished delivers has all data lines of the file up to the cap.
C2_ObservedCancelGivesNoTable ==
    \A l \in Loaders :
        /\ thread[l].observed =>
              \A i \in 1..Len(emitted[l]) : emitted[l][i].sig # "loadingFinished"
        /\ (thread[l].observed /\ Ended(l)) =>
              /\ emitted[l] # <<>>
              /\ Last(emitted[l]).sig = "errorOccurred"
              /\ Last(emitted[l]).message \in
                    {"Loading cancelled by user.",
                     "Loading cancelled by user during row processing."}
        /\ \A i \in 1..Len(emitted[l]) :
              emitted[l][i].sig = "loadingFinished" =>
                  Size(emitted[l][i].data.rows) = RowsDue(l)

\* A load was cancelled after it had read rows, and has ended with the
\* cancelled error.
C2_Witness ==
    \E l \in Loaders :
        /\ thread[l].pc = "finished"
        /\ thread[l].observed
        /\ thread[l].rowsLoaded > 0
        /\ thread[l].rowsLoaded < RowsDue(l)
        /\ Last(emitted[l]).message =
              "Loading cancelled by user during row processing."

\* C3: at most one loader thread is inside run() at any time.
C3_AtMostOneLoaderRuns ==
    Cardinality({l \in Loaders : InRun(l)}) <= 1

\* C4: a run emits at most one terminal signal (loadingFinished or
\* errorOccurred) and nothing after it; it has emitted one exactly when it has
\* reached its return, on every path.
C4_OneTerminalSignalLast ==
    \A l \in Loaders :
        /\ Cardinality(Terminals(l)) <= 1
        /\ \A i \in Terminals(l) : i = Len(emitted[l])
        /\ Ended(l) <=> Terminals(l) # {}
        /\ thread[l].pc = "none" => emitted[l] = <<>>

\* A run has returned after two progress signals and the table.
C4_Witness ==
    \E l \in Loaders :
        /\ thread[l].pc = "finished"
        /\ Len(emitted[l]) = 3
        /\ emitted[l][1].sig = "progressUpdated"
        /\ emitted[l][2].sig = "progressUpdated"
        /\ emitted[l][3].sig = "loadingFinished"

\* C5: when handleCsvLoadingFinished has run, the loaded table and the
\* displayed table are the delivered table; when handleCsvLoadingError has
\* run, both are empty, whatever was loaded before.
C5_TableReplacedOrCleared ==
    /\ lastHandler.op = "handleCsvLoadingFinished" =>
          /\ mw.currentCsvData = lastHandler.data
          /\ mw.currentlyDisplayedData = lastHandler.data
    /\ lastHandler.op = "handleCsvLoadingError" =>
          /\ mw.currentCsvData = EmptyCsvData
          /\ mw.currentlyDisplayedData = EmptyCsvData

\* The error handler has run while a table with rows was loaded.
C5_Witness ==
    /\ lastHandler.op = "handleCsvLoadingError"
    /\ lastHandler.before.rows # <<>>
    /\ mw.currentCsvData = EmptyCsvData

\* C6: a run on a path that does not exist emits nothing before its outcome,
\* and its outcome is the file-not-found error alone: no progress signal, no
\* table.
C6_MissingFileGivesNotFound ==
    \A l \in Loaders :
        (thread[l].pc # "none" /\ ~FileSystem[thread[l].filePath].exists) =>
            /\ Ended(l) => emitted[l] = <<ErrorOccurred("File not found")>>
            /\ ~Ended(l) => emitted[l] = <<>>

\* A run on the missing path has returned.
C6_Witness ==
    \E l \in Loaders :
        /\ thread[l].pc = "finished"
        /\ thread[l].filePath = "missing.csv"
        /\ Len(emitted[l]) = 1

\* C7: when applyTableFilters has run with every filter text blank (empty
\* once trimmed), the displayed table is the loaded table: same headers, same
\* rows in the same order, short rows included.
C7_BlankFiltersShowLoadedTable ==
    (/\ lastHandler.op = "applyTableFilters"
     /\ \A j \in 1..Len(lastHandler.filters) : IsBlank(lastHandler.filters[j]))
    => mw.currentlyDisplayedData = mw.currentCsvData

\* Filters of spaces only were applied to a table that has a row shorter than
\* its header list.
C7_Witness ==
    /\ lastHandler.op = "applyTableFilters"
    /\ \A j \in 1..Len(lastHandler.filters) : IsBlank(lastHandler.filters[j])
    /\ \E j \in 1..Len(lastHandler.filters) : lastHandler.filters[j] # <<>>
    /\ \E i \in 1..Len(mw.currentCsvData.rows) :
          Len(mw.currentCsvData.rows[i]) < Len(mw.currentCsvData.headers)
    /\ mw.currentlyDisplayedData.rows = mw.currentCsvData.rows

\* C8: when applyTableFilters has run with a filter that is not blank, the
\* rows shown that are as long as the filter list are, in order, the loaded
\* rows of that length that satisfy every non-empty filter; the table
\* [["1","a"],["6","a"],["6","b"]] with filters [">5","a"] shows [["6","a"]].
C8_RowsKeptSatisfyEveryFilter ==
    (/\ lastHandler.op = "applyTableFilters"
     /\ \E j \in 1..Len(lastHandler.filters) : ~IsBlank(lastHandler.filters[j]))
    => LET f == [j \in 1..Len(lastHandler.filters) |->
                    Trimmed(lastHandler.filters[j])]
           Sufficient(row) == Len(row) >= Len(f)
           Kept(row) ==
               /\ Len(row) >= Len(f)
               /\ \A j \in 1..Len(f) :
                     f[j] # <<>> => FilterMatches(row[j], f[j])
       IN  /\ mw.currentlyDisplayedData.headers = mw.currentCsvData.headers
           /\ SelectSeq(mw.currentlyDisplayedData.rows, Sufficient)
                = SelectSeq(mw.currentCsvData.rows, Kept)
           /\ (/\ mw.currentCsvData.rows =
                     << <<<<"1">>, <<"a">>>>, <<<<"6">>, <<"a">>>>,
                        <<<<"6">>, <<"b">>>> >>
               /\ f = << <<">", "5">>, <<"a">> >>)
              => mw.currentlyDisplayedData.rows = << <<<<"6">>, <<"a">>>> >>

\* The filters ">5" and "a" were applied to the table of the example.
C8_Witness ==
    /\ lastHandler.op = "applyTableFilters"
    /\ lastHandler.filters = << <<">", "5">>, <<"a">> >>
    /\ Len(mw.currentCsvData.rows) = 3
    /\ mw.currentCsvData.rows[1] = << <<"1">>, <<"a">> >>
    /\ mw.currentlyDisplayedData.rows = << <<<<"6">>, <<"a">>>> >>

\* applyTableFilters has run with "10:20" as the only filter that is not
\* blank, on column j (1-based).
RangeFilterOn(j) ==
    /\ lastHandler.op = "applyTableFilters"
    /\ j \in 1..Len(lastHandler.filters)
    /\ Trimmed(lastHandler.filters[j]) = <<"1", "0", ":", "2", "0">>
    /\ \A k \in 1..Len(lastHandler.filters) :
          k # j => IsBlank(lastHandler.filters[k])

\* C9 as stated: the range filter "10:20" on one column keeps exactly the rows
\* whose cell in that column parses as a number v with 10 <= v <= 20.
C9_RangeKeepsExactlyNumbersInRange ==
    \A j \in 1..Len(lastHandler.filters) :
        RangeFilterOn(j) =>
            LET InRange(row) ==
                    /\ Len(row) >= j
                    /\ NumOk(row[j])
                    /\ 10 <= NumVal(row[j]) /\ NumVal(row[j]) <= 20
            IN  mw.currentlyDisplayedData.rows
                    = SelectSeq(mw.currentCsvData.rows, InRange)

\* C9, amended: the range filter "10:20" on one column keeps exactly the rows
\* that are at least as long as the filter list and whose cell in that column
\* either parses as a number v with 10 <= v <= 20, or does not parse as a
\* number and contains the text "10:20".
C9_RangeKeepsNumbersInRangeOrText ==
    \A j \in 1..Len(lastHandler.filters) :
        RangeFilterOn(j) =>
            LET Kept(row) ==
                    /\ Len(row) >= Len(lastHandler.filters)
                    /\ IF NumOk(row[j])
                       THEN 10 <= NumVal(row[j]) /\ NumVal(row[j]) <= 20
                       ELSE Contains(Lower(row[j]), <<"1", "0", ":", "2", "0">>)
            IN  mw.currentlyDisplayedData.rows
                    = SelectSeq(mw.currentCsvData.rows, Kept)

\* "10:20" was applied to the first column of a table with cells in and out
\* of the range, a cell that is no number, the cell "10:20" and a short row:
\* the rows of 10, 15, 20 and "10:20" are shown.
C9_Witness ==
    /\ RangeFilterOn(1)
    /\ Len(mw.currentCsvData.rows) = 8
    /\ Len(mw.currentlyDisplayedData.rows) = 4
    /\ mw.currentlyDisplayedData.rows[4][1] = <<"1", "0", ":", "2", "0">>

\* C10: in every state a lookup of -2 gives the sentinel colour and a lookup
\* of any other negative id the unavailable colour, and leaves the colour map
\* and nextColorIndex as they are; so no negative id is ever in the map, and
\* nextColorIndex counts the ids in it.
C10_NegativeIdsTakeNoSlot ==
    /\ \A id \in (-3)..(-1) :
          GetEmitterColor(mw.emitterColorMap, mw.nextColorIndex, id)
            = [color |-> IF id = -2 THEN "red" ELSE "darkGray",
               map   |-> mw.emitterColorMap,
               next  |-> mw.nextColorIndex]
    /\ \A id \in DOMAIN mw.emitterColorMap : id >= 0
    /\ mw.nextColorIndex = Cardinality(DOMAIN mw.emitterColorMap)

\* The colours of a table with the emitter ids 3, 7, -1 and -2 (a cell that is
\* no number) were looked up: two slots are taken.
C10_Witness ==
    /\ lastHandler.op = "handleCsvLoadingFinished"
    /\ UniqueEmitterIds(mw.currentCsvData.rows, 1) = {3, 7, -1, -2}
    /\ DOMAIN mw.emitterColorMap = {3, 7}
    /\ mw.nextColorIndex = 2

\* The colour of palette slot k (from 0)
PaletteSlot(k) == vibrantColors[(k % Len(vibrantColors)) + 1]

\* Two more distinct ids than the palette has colours
ManyIds == [k \in 1..(Len(vibrantColors) + 2) |-> 2 * k]

\* C11: since the colour map was last cleared, the k-th distinct id >= 0 that
\* getEmitterColor was called with (k from 0) has the colour of palette slot
\* k mod paletteSize, whatever was looked up again since, and nextColorIndex
\* counts these ids; the lookups 3, 7, 3 from the cleared map give slot 0 to
\* id 3, slot 1 to id 7 and leave nextColorIndex at 2, and the sixteenth
\* distinct id takes slot 0 again.
C11_ColoursInFirstLookupOrder ==
    /\ DOMAIN mw.emitterColorMap = {mw.lookedUp[k] : k \in 1..Len(mw.lookedUp)}
    /\ mw.nextColorIndex = Len(mw.lookedUp)
    /\ \A k \in 1..Len(mw.lookedUp) :
           mw.emitterColorMap[mw.lookedUp[k]] = PaletteSlot(k - 1)
    /\ LookUpAll(NewMainWindow, <<3, 7, 3>>).emitterColorMap
           = (3 :> PaletteSlot(0)) @@ (7 :> PaletteSlot(1))
    /\ LookUpAll(NewMainWindow, <<3, 7, 3>>).nextColorIndex = 2
    /\ \A k \in 1..Len(ManyIds) :
           LookUpAll(NewMainWindow, ManyIds).emitterColorMap[ManyIds[k]]
               = PaletteSlot(k - 1)
    /\ PaletteSlot(Len(vibrantColors)) = PaletteSlot(0)

\* Id 7 was looked up before id 3 when the table was loaded, and the legend has
\* looked both up again since, the view having been toggled to 3D and back.
C11_Witness ==
    /\ mw.lookedUp = <<7, 3>>
    /\ mw.emitterColorMap = (3 :> PaletteSlot(1)) @@ (7 :> PaletteSlot(0))
    /\ lastHandler.op = "toggleViewMode"
    /\ ~mw.is3DViewActive
    /\ mw.currentlyDisplayedData.rows # <<>>

\* No slot of the interactive thread is executing or waiting.
NoHandlerExecuting == mainPc \in {"idle", "closed"} /\ msgBoxes = 0

\* C12: whenever no handler is executing, the save-image action is enabled
\* only if the 2D view is active and the current plot point set is not empty.
C12_SaveImageOnlyWithPoints ==
    NoHandlerExecuting =>
        (mw.saveImageAction =>
            ~mw.is3DViewActive /\ mw.currentPlotPoints # <<>>)

\* C13: whenever no handler is executing, the export-filtered-data action is
\* enabled only if the displayed (filtered) table has at least one row.
C13_ExportOnlyWithRows ==
    NoHandlerExecuting =>
        (mw.exportFilteredAction => mw.currentlyDisplayedData.rows # <<>>)

\* The filters applied to a loaded table kept no row, and the export action,
\* enabled when the table was loaded, is disabled.
C13_Witness ==
    /\ NoHandlerExecuting
    /\ lastHandler.op = "applyTableFilters"
    /\ lastHandler.before.rows # <<>>
    /\ mw.currentlyDisplayedData.rows = <<>>
    /\ ~mw.exportFilteredAction

\* The field has a comma, a double quote or a newline in it.
NeedsQuotes(field) == \E k \in 1..Len(field) : field[k] \in {",", "\"", "\n"}

\* The field wrapped in double quotes with its double quotes doubled if it
\* needs quotes, verbatim if not
Escaped(field) ==
    IF NeedsQuotes(field) THEN <<"\"">> \o QuotesDoubled(field) \o <<"\"">>
    ELSE field

EscapedLine(fields) == JoinFields([j \in 1..Len(fields) |-> Escaped(fields[j])])

\* C14: in the exported file every field of the header line and of each row
\* that contains a comma, a double quote or a newline is written wrapped in
\* double quotes with each internal double quote doubled, and every other
\* field is written verbatim.
C14_EveryExportedFieldEscaped ==
    exported.file.exists =>
        /\ Len(exported.file.lines) = Len(exported.data.rows) + 1
        /\ exported.file.lines[1] = EscapedLine(exported.data.headers)
        /\ \A i \in 1..Len(exported.data.rows) :
               exported.file.lines[i + 1] = EscapedLine(exported.data.rows[i])

\* Some header or cell of the table has a comma or a double quote in it.
HasCommaOrQuote(data) ==
    \/ \E j \in 1..Len(data.headers) :
           Contains(data.headers[j], <<",">>) \/ Contains(data.headers[j], <<"\"">>)
    \/ \E i \in 1..Len(data.rows) : \E j \in 1..Len(data.rows[i]) :
           Contains(data.rows[i][j], <<",">>) \/ Contains(data.rows[i][j], <<"\"">>)

\* The exported file was opened and its table has been handed to the window.
Reloaded ==
    /\ LoadsStarted = 2
    /\ thread[2].filePath = "export.csv"
    /\ lastHandler.op = "handleCsvLoadingFinished"

\* C15: the table loaded from the exported file equals the exported table
\* (same headers, same rows, same order) exactly when no field of the exported
\* table contains a comma or a double quote.
C15_RoundTripExactlyWithoutCommaOrQuote ==
    Reloaded =>
        ((lastHandler.data = exported.data) <=> ~HasCommaOrQuote(exported.data))

\* Widths in pixels of the plot area of a painted widget
PlotRectWidths == {1, 120, 121}

\* All points of the widget have the x of the first one.
SharesOneX(plotData) ==
    /\ plotData # <<>>
    /\ \A i \in 1..Len(plotData) : plotData[i][1] = plotData[1][1]

\* C16: the bounding box the renderer scales by always has strictly positive
\* width and height; with no points it is the unit box; when all points share
\* one x = v the box starts 0.5 below v and is 1 wide, and paintEvent, which
\* then divides by that width, puts the points at the horizontal centre of
\* the plot area.
C16_BoundingBoxPositiveAndCentred ==
    LET plotData == mw.plotWidget.plotData
        rect == CalculateDataBoundingRect(plotData)
    IN  /\ Less(Halves(0), rect.width)
        /\ Less(Halves(0), rect.height)
        /\ plotData = <<>> =>
               rect = QRectF(Double(0), Double(0), Double(1), Double(1))
        /\ SharesOneX(plotData) =>
               /\ Extent(rect.left, plotData[1][1]) = Halves(1)
               /\ rect.width = Double(1)
               /\ DrawsPoints(plotData, rect) =>
                      \A w \in PlotRectWidths :
                          PointXOffset(plotData[1][1], rect, w)
                              = [num |-> w, den |-> 2]

\* C17: when the window is closed, whatever state the application is in, the
\* main window is torn down only after every loader thread that was running
\* has fully terminated.
C17_TornDownAfterWorkersEnd ==
    mainPc = "closed" => \A l \in Loaders : ~IsRunning(l)

\* The signal is one of the two errors a cancelled load ends with.
IsCancelledOutcome(s) ==
    /\ s.sig = "errorOccurred"
    /\ s.message \in {"Loading cancelled by user.",
                      "Loading cancelled by user during row processing."}

\* C18: once cancel() has set the flag, the worker reads at most one further
\* data line; and if rows were still unread when it was set, the load ends
\* with the cancelled outcome.
C18_AtMostOneLineAfterCancel ==
    \A l \in Loaders :
        cancelledAt[l] >= 0 =>
            /\ thread[l].rowsLoaded - cancelledAt[l] <= 1
            /\ (Ended(l) /\ Readable(thread[l].filePath)
                    /\ cancelledAt[l] < RowsDue(l)) =>
                   IsCancelledOutcome(Last(emitted[l]))

\* The percentage of the statement: min(100, bytes * 100 / size), or 0 when
\* the size is 0 or negative
Reported(bytes, size) ==
    IF size > 0 THEN Min(100, (bytes * 100) \div size) ELSE 0

\* The progress signals of loader l that count rows
RowEvents(l) ==
    LET CountsRows(s) == s.sig = "progressUpdated" /\ s.message = "rows loaded..."
    IN  SelectSeq(emitted[l], CountsRows)

\* From the k-th on, each row event is the one of row k * PROGRESS_EVERY and
\* reports the percentage of the bytes read up to that row; bytes are those of
\* the lines before `line`.
RECURSIVE RowEventsReport(_, _, _, _, _)
RowEventsReport(events, lines, size, k, bytes) ==
    \/ k > Len(events)
    \/ LET upTo == bytes + LineBytes(lines, (k - 1) * PROGRESS_EVERY + 2,
                                     k * PROGRESS_EVERY + 1)
       IN  /\ events[k].n = k * PROGRESS_EVERY
           /\ events[k].value = Reported(upTo, size)
           /\ RowEventsReport(events, lines, size, k + 1, upTo)

\* Each row event of loader l is the one of the next PROGRESS_EVERY-th row and
\* reports the percentage of the bytes of the lines up to that row.
RowEventsReportBytes(l) ==
    \E events \in {RowEvents(l)} : \E lines \in {LinesOf(l)} :
        RowEventsReport(events, lines, thread[l].fileSize, 1, Len(lines[1]) + 1)

\* Loader l has read the header of its file.
HeaderRead(l) == thread[l].pc # "none" /\ thread[l].linesRead >= 1

\* One progress event follows the header, and one follows every
\* PROGRESS_EVERY-th row read so far, in this order; every percentage is in
\* 0..100.
ProgressEvents(l) ==
    /\ emitted[l][1].sig = "progressUpdated"
    /\ emitted[l][1].message = "Header loaded."
    /\ \A i \in 2..Len(emitted[l]) : emitted[l][i].message # "Header loaded."
    /\ Len(RowEvents(l)) = thread[l].rowsLoaded \div PROGRESS_EVERY
    /\ \A i \in 1..Len(emitted[l]) :
           emitted[l][i].sig = "progressUpdated" => emitted[l][i].value \in 0..100

\* C19 as stated: a progress event follows the header and every 1,000th row,
\* and each of them, the one of the header included, reports
\* min(100, bytesReadSoFar * 100 / fileSize), or 0 for a size of 0 or less.
C19_EveryProgressEventReportsBytes ==
    \A l \in Loaders :
        HeaderRead(l) =>
            /\ ProgressEvents(l)
            /\ emitted[l][1].value =
                   Reported(Len(LinesOf(l)[1]) + 1, thread[l].fileSize)
            /\ RowEventsReportBytes(l)

\* C19: a progress event follows the header and reports 0; one follows every
\* 1,000th row and reports min(100, bytesReadSoFar * 100 / fileSize), or 0 for
\* a size of 0 or less; every reported percentage is in 0..100.
C19_HeaderReportsZeroRowsReportBytes ==
    \A l \in Loaders :
        HeaderRead(l) =>
            /\ ProgressEvents(l)
            /\ emitted[l][1].value = 0
            /\ RowEventsReportBytes(l)

\* The file that has doubled since it was opened has been read: the event of
\* its thousandth row reports 100, where the bytes read are twice the size.
C19_Witness ==
    /\ thread[1].filePath = "grown.csv"
    /\ Ended(1)
    /\ Len(RowEvents(1)) = 1
    /\ RowEvents(1)[1].value = 100
    /\ (thread[1].bytesRead * 100) \div thread[1].fileSize > 100
    /\ emitted[1][1].value = 0

\* The comparison an operator of a filter stands for
Compares(op, v, w) ==
    CASE op = <<">", "=">> -> v >= w
      [] op = <<"<", "=">> -> v <= w
      [] op = <<">">>      -> v > w
      [] op = <<"<">>      -> v < w
      [] OTHER             -> v = w

Operators == { <<">", "=">>, <<"<", "=">>, <<"=", "=">>, <<">">>, <<"<">>, <<"=">> }

\* Step 1 applies to filter f and cell c with operator op: f starts with op,
\* and the remainder and c parse as numbers.
ComparesWith(op, c, f) ==
    /\ Len(op) <= Len(f) /\ SubSeq(f, 1, Len(op)) = op
    /\ NumOk(SubSeq(f, Len(op) + 1, Len(f)))
    /\ NumOk(c)

\* Step 2 applies to filter f and cell c: f splits on ':' into exactly two
\* numeric parts and c parses as a number.
IsRangeFor(c, f) ==
    /\ Cardinality({i \in 1..Len(f) : f[i] = ":"}) = 1
    /\ \E i \in 1..Len(f) :
          /\ f[i] = ":"
          /\ NumOk(SubSeq(f, 1, i - 1)) /\ NumOk(SubSeq(f, i + 1, Len(f)))
    /\ NumOk(c)

\* The three-step rule: the comparison, else the range, else the containment
\* of the whole filter text in the cell, letters' case ignored.
Rule(c, f) ==
    IF \E op \in Operators : ComparesWith(op, c, f)
    THEN \A op \in Operators :
            ComparesWith(op, c, f) =>
                Compares(op, NumVal(c), NumVal(SubSeq(f, Len(op) + 1, Len(f))))
    ELSE IF IsRangeFor(c, f)
    THEN \E i \in 1..Len(f) :
            /\ f[i] = ":"
            /\ NumVal(SubSeq(f, 1, i - 1)) <= NumVal(c)
            /\ NumVal(c) <= NumVal(SubSeq(f, i + 1, Len(f)))
    ELSE Contains(Lower(c), Lower(f))

\* applyTableFilters has run with a filter that is not blank.
FiltersApplied ==
    /\ lastHandler.op = "applyTableFilters"
    /\ \E j \in 1..Len(lastHandler.filters) : ~IsBlank(lastHandler.filters[j])

\* C20: when applyTableFilters has run with a filter that is not blank, the
\* rows shown are exactly the rows, as long as the filter list, whose cell
\* under each filter that is not blank satisfies the three-step rule for the
\* trimmed filter text: the numeric comparison when the text starts with >=,
\* <=, ==, >, < or = and the remainder and the cell parse as numbers (= and ==
\* comparing alike), else min <= cell <= max when the text splits on ':' into
\* two numbers and the cell parses as a number (no number is in an inverted
\* range), else containment of the whole text in the cell, case ignored.  And
\* for each cell that parses as a number and each number n taken from a
\* filter, the filters "=n" and "==n" give the same result.
C20_FilterFollowsThreeStepRule ==
    FiltersApplied =>
        LET f == lastHandler.filters
            Kept(row) ==
                /\ Len(row) >= Len(f)
                /\ \A j \in 1..Len(f) :
                      ~IsBlank(f[j]) => Rule(row[j], Trimmed(f[j]))
        IN  /\ mw.currentlyDisplayedData.rows
                  = SelectSeq(mw.currentCsvData.rows, Kept)
            /\ \A i \in 1..Len(mw.currentCsvData.rows), j \in 1..Len(f) :
                  \A n \in {SubSeq(t, 2, Len(t)) : t \in {Trimmed(f[j])}} :
                      /\ j <= Len(mw.currentCsvData.rows[i]) /\ NumOk(n)
                      /\ NumOk(mw.currentCsvData.rows[i][j])
                      =>  FilterMatches(mw.currentCsvData.rows[i][j], <<"=">> \o n)
                            = FilterMatches(mw.currentCsvData.rows[i][j],
                                            <<"=", "=">> \o n)

\* " =6 " was applied to the one column of the table of the rule runs: the
\* rows of 6 and 06 are shown by the comparison, and the row "=6", which is
\* no number, by containment.
C20_Witness ==
    /\ FiltersApplied
    /\ lastHandler.filters = << <<" ", "=", "6", " ">> >>
    /\ Len(mw.currentCsvData.rows) = 10
    /\ mw.currentlyDisplayedData.rows
          = << <<<<"6">>>>, <<<<"0", "6">>>>, <<<<"=", "6">>>> >>

\* The rows of a table that have fewer cells than n
ShortRows(data, n) == {i \in 1..Len(data.rows) : Len(data.rows[i]) < n}

\* C21: when applyTableFilters has run with a filter that is not blank, no
\* row with fewer cells than there are filter columns is shown, whichever
\* columns the active filters are on; when it has run with every filter
\* blank, or clearTableFilters has run, every such row of the loaded table is
\* shown, at its place.
C21_ShortRowsShownOnlyWithoutFilter ==
    /\ FiltersApplied =>
          ShortRows(mw.currentlyDisplayedData, Len(lastHandler.filters)) = {}
    /\ (\/ lastHandler.op = "clearTableFilters"
        \/ /\ lastHandler.op = "applyTableFilters"
           /\ \A j \in 1..Len(lastHandler.filters) :
                 IsBlank(lastHandler.filters[j]))
       => /\ Len(mw.currentlyDisplayedData.rows) = Len(mw.currentCsvData.rows)
          /\ \A i \in ShortRows(mw.currentCsvData,
                                Len(mw.currentCsvData.headers)) :
                mw.currentlyDisplayedData.rows[i] = mw.currentCsvData.rows[i]

\* ">5" was applied to the first column of the table of the range runs and
\* nothing to the second: the one-cell row "15" has the first column and its
\* cell is above 5, and it is not among the five rows shown.
C21_Witness ==
    /\ FiltersApplied
    /\ lastHandler.filters = << <<">", "5">>, <<>> >>
    /\ \E i \in ShortRows(mw.currentCsvData, 2) :
          /\ mw.currentCsvData.rows[i] = << <<"1", "5">> >>
          /\ FilterMatches(mw.currentCsvData.rows[i][1], <<">", "5">>)
    /\ Len(mw.currentlyDisplayedData.rows) = 5
    /\ ShortRows(mw.currentlyDisplayedData, 2) = {}

\* The rows a from the i-th on are, in order, among the rows b from the j-th on
RECURSIVE IsSubsequence(_, _, _, _)
IsSubsequence(a, b, i, j) ==
    IF i > Len(a) THEN TRUE
    ELSE IF j > Len(b) THEN FALSE
    ELSE IF a[i] = b[j] THEN IsSubsequence(a, b, i + 1, j + 1)
    ELSE IsSubsequence(a, b, i, j + 1)

\* The tables loader l has delivered with loadingFinished
Delivered(l) ==
    {Received(emitted[l][k].data) :
        k \in {n \in 1..Len(emitted[l]) : emitted[l][n].sig = "loadingFinished"}}

\* The table of loader 1 has been delivered and handled, and the last thing
\* done since was the load, an application of the filters or a clearing of
\* them.
LoadedThenFiltered ==
    /\ Delivered(1) # {}
    /\ \A k \in 1..Len(queue) : queue[k].signal.sig # "loadingFinished"
    /\ lastHandler.op \in {"handleCsvLoadingFinished", "applyTableFilters",
                           "clearTableFilters"}

\* C22: once a table is loaded, after any applications and clearings of the
\* filters the loaded table is the one the loader delivered, the headers shown
\* are the loaded headers, the rows shown are loaded rows in their loaded
\* order, and the rows an application with a filter that is not blank shows
\* are selected from the loaded rows, whatever was shown before it.
C22_ShownRowsAreLoadedRowsInOrder ==
    LoadedThenFiltered =>
        /\ mw.currentCsvData \in Delivered(1)
        /\ mw.currentlyDisplayedData.headers = mw.currentCsvData.headers
        /\ IsSubsequence(mw.currentlyDisplayedData.rows, mw.currentCsvData.rows,
                         1, 1)
        /\ FiltersApplied =>
              \E f \in {[j \in 1..Len(lastHandler.filters) |->
                            Trimmed(lastHandler.filters[j])]} :
                  LET Selected(row) == MatchesAllFilters(row, f)
                  IN  mw.currentlyDisplayedData.rows
                          = SelectSeq(mw.currentCsvData.rows, Selected)

\* "a" was applied to the second column of the table of the range runs: of
\* its eight rows the first, the third to the seventh are shown, in that
\* order, and the table loaded still has its eight rows.
C22_Witness ==
    /\ LoadedThenFiltered
    /\ FiltersApplied
    /\ lastHandler.filters = << <<>>, <<"a">> >>
    /\ Len(mw.currentCsvData.rows) = 8
    /\ mw.currentlyDisplayedData.rows
          = [i \in 1..6 |-> mw.currentCsvData.rows[IF i = 1 THEN 1 ELSE i + 1]]

\* C23: in every state where no handler is executing, each plotted point is
\* filled with the colour emitterColorMap holds for its emitter id when the
\* map holds one, and with the neutral default (gray) when it holds none.
C23_PointsFilledWithRegistryColours ==
    NoHandlerExecuting =>
        \A i \in 1..Len(mw.plotWidget.plotData) :
            \E e \in {mw.plotWidget.pointEmitterIds[i]} :
                PointColor(mw.plotWidget, i)
                    = IF e \in DOMAIN mw.emitterColorMap
                      THEN mw.emitterColorMap[e]
                      ELSE "gray"

\* Loader l has emitted the given signal.
HasEmitted(l, sig) == \E k \in 1..Len(emitted[l]) : emitted[l][k].sig = sig

\* This step handles the terminal signal of a loader that openCsvFile has
\* cancelled and replaced, while the loader that replaced it is running:
\* handleCsvLoadingFinished is called with the table of such a loader, or the
\* message box of handleCsvLoadingError is closed when the current loader has
\* emitted no error and every loader that has is cancelled.
StaleOutcomeHandled ==
    /\ csvLoader # 0 /\ IsRunning(csvLoader)
    /\ \/ /\ queue # <<>>
          /\ Head(queue).signal.sig = "loadingFinished"
          /\ Head(queue).from # csvLoader
          /\ isCancelled[Head(queue).from]
          /\ lastHandler'.op = "handleCsvLoadingFinished"
          /\ queue' = Tail(queue)
       \/ /\ msgBoxes' = msgBoxes - 1
          /\ ~HasEmitted(csvLoader, "errorOccurred")
          /\ \A l \in Loaders \ {csvLoader} :
                HasEmitted(l, "errorOccurred") => isCancelled[l]

\* C24: a step that handles the terminal signal of a cancelled and replaced
\* loader leaves the running loader that replaced it as it is (csvLoader still
\* points to it and no deleteLater is posted for it) and leaves the loaded and
\* the displayed table as they are.
C24_StaleOutcomeLeavesNewLoad ==
    [][StaleOutcomeHandled =>
          /\ csvLoader' = csvLoader
          /\ deferred'[csvLoader] = deferred[csvLoader]
          /\ mw'.currentCsvData = mw.currentCsvData
          /\ mw'.currentlyDisplayedData = mw.currentlyDisplayedData]_vars

\* C25: a step that destroys a loader object while the window lives (the
\* delete of openCsvFile, or the deferred delete posted by deleteLater in an
\* outcome handler) finds its thread returned from run(): not started or
\* finished.
C25_LoaderDestroyedAfterRunReturns ==
    [][\A l \in Loaders :
          (/\ object[l] = "alive" /\ object'[l] = "destroyed"
           /\ mainPc' # "closed")
          => ~IsRunning(l)]_vars

\* The points and emitter ids derived from a table, the X and Y columns
\* (0-based, -1 for none selected) and the emitter column (0-based, -1 for
\* none): one point per row whose X and Y cells exist and parse as numbers, in
\* row order, with the id parsed from the row's emitter cell, -2 when it does
\* not parse, -1 when there is no emitter column (or no such cell in the row).
DerivedPlot(data, xCol, yCol, emitterCol) ==
    LET Numeric(row) ==
            /\ xCol # -1 /\ yCol # -1
            /\ Len(row) > xCol /\ Len(row) > yCol
            /\ NumOk(row[xCol + 1]) /\ NumOk(row[yCol + 1])
        rows == SelectSeq(data.rows, Numeric)
    IN  [points |-> [i \in 1..Len(rows) |->
                        <<Double(NumVal(rows[i][xCol + 1])),
                          Double(NumVal(rows[i][yCol + 1]))>>],
         ids    |-> [i \in 1..Len(rows) |->
                        IF emitterCol = -1 \/ Len(rows[i]) <= emitterCol THEN -1
                        ELSE IF NumOk(rows[i][emitterCol + 1])
                        THEN NumVal(rows[i][emitterCol + 1])
                        ELSE -2]]

\* C26: in every state of the 2D view where no handler is executing, the
\* points and the emitter ids of the plot are the ones derived from the
\* displayed table, the columns selected in the X and Y selectors and the
\* emitter column identified at the last load.
C26_PlotDerivedFromTableAndColumns ==
    (NoHandlerExecuting /\ ~mw.is3DViewActive) =>
        \E d \in {DerivedPlot(mw.currentlyDisplayedData,
                              mw.xComboBox.index, mw.yComboBox.index,
                              IF mw.currentEmitterColumn = <<>> THEN -1
                              ELSE IndexOfHeader(mw.currentlyDisplayedData.headers,
                                                 mw.currentEmitterColumn))} :
            /\ mw.plotWidget.plotData = d.points
            /\ mw.plotWidget.pointEmitterIds = d.ids

=============================================================================
